---- MODULE Spec2Model ----
(***************************************************************************)
(* Reporting-data fetch-and-validate layer of the job-vacancy dashboard.   *)
(*                                                                         *)
(* Several specifications are defined over the same variables:             *)
(*   Spec        one dashboard process: home_pages is imported (which runs *)
(*               load_home_page_data and page_content once), display_page  *)
(*               serves requests, and the pipeline writes new snapshots to *)
(*               the warehouse between any two queries.  The dashboard_app *)
(*               variant of load_home_page_data is the other entry point.  *)
(*   SpecUnit    unit-level calls of the dashboard wrappers and of the     *)
(*               FetchReportData methods on arbitrary bounded inputs.      *)
(*   SpecQuery   the queries of the fetch methods on bounded tables.       *)
(*   SpecNames   the adjustment of company names.                          *)
(*   SpecCharts  the reductions of the two tool charts.                    *)
(*   SpecExtract the ranking extraction helpers.                           *)
(*   SpecSession a sequence of calls on one fetcher: tables and cursors.   *)
(*   SpecRepeat  the possible returns of the two ranking fetchers.         *)
(*   SpecDag     runs of the pipeline's DAG.                               *)
(***************************************************************************)
EXTENDS Integers, Sequences, FiniteSets, TLC

(* ---------------------------- bounds ----------------------------------- *)
\* calendar days (snapshots) distinguished by the model
MaxDay == 2
\* times of day distinguished inside one calendar day (0 is midnight)
MaxTod == 1
\* rows of a table handed to a wrapper in a unit-level call
MaxRows == 2
\* writes of the pipeline to the warehouse during one dashboard process
MaxUpdates == 2
\* display_page requests served by one dashboard process
MaxRenders == 2
\* days over which the statistics query's metrics table ranges
MaxStatDay == 9
\* rows of the statistics query's metrics table
MaxStatRows == 2
\* days over which the historical series' metrics table ranges
MaxHistoryDay == 14
\* characters of a company name
MaxNameLen == 4
\* rows of the company ranking table
NumCompanies == 6
\* largest opening_count of a company
MaxOpenings == 2
\* rows of the tool ranking table
NumRankedTools == 4
\* largest rank of a tool
MaxRank == 2
\* scale of the tool counts and of total_openings
MaxToolCount == 2
\* rows of the role table
NumRoles == 3
\* rows of a short tool-by-role series
MaxSeriesLen == 2
\* tools of a series with one row per tool
NumTools == 11
\* largest count of a row of such a series
MaxSeriesCount == 2
\* rows of a table handed to an extraction helper beyond those it reads
MaxExtraRows == 1
\* calls served by one fetcher's session
MaxSessionCalls == 3
\* runs of the pipeline's DAG that are followed
MaxDagRuns == 2

(* ------------------------ program constants ---------------------------- *)
\* LIMIT 12 of the historical series query
HistoryLimit == 12
\* the 7 of INTERVAL '7 days' in the window of the statistics query
WindowDays == 7
\* LIMIT 5 of the company ranking query
CompanyLimit == 5
\* LIMIT 3 of the tool ranking query
ToolLimit == 3
\* nlargest(10) of the line chart's tools
LineTopTools == 10
\* nlargest(5, 'count') of the bar chart's tools
BarTopTools == 5
\* positions 0..2 read by extract_tools_ranker
ToolsRanked == 3
\* positions 0..4 read by extract_company_ranker
CompaniesRanked == 5
\* default_args 'retries' of the pipeline's DAG
Retries == 1

(* ------------------------ marker values -------------------------------- *)
(* A crawl_date value as Python sees it.  k is the Python type and form:   *)
(*   "dstr"  str 'YYYY-MM-DD'                                              *)
(*   "tstr"  str 'YYYY-MM-DD HH:MM:SS'                                     *)
(*   "bad"   str that does not denote a date                               *)
(*   "date"  datetime.date object                                          *)
(*   "none"  None                                                          *)
None == [k |-> "none", d |-> 0, t |-> 0]
Bad == [k |-> "bad", d |-> 0, t |-> 0]
DStr(d) == [k |-> "dstr", d |-> d, t |-> 0]
TStr(d, t) == [k |-> "tstr", d |-> d, t |-> t]
DateObj(d) == [k |-> "date", d |-> d, t |-> 0]

Days == 1..MaxDay
Tods == 0..MaxTod

\* the strings a text crawl_date column of the warehouse holds in Spec
WarehouseMarkers == {DStr(d) : d \in Days} \cup {Bad}

\* the values a row handed to a wrapper can carry in SpecUnit
RowMarkers ==
    {DStr(d) : d \in Days} \cup {TStr(d, t) : d \in Days, t \in Tods}
        \cup {DateObj(d) : d \in Days} \cup {Bad}

IsStr(v) == v.k \in {"dstr", "tstr", "bad"}

\* Python ==  on two marker values: same type and same content
PyEq(a, b) ==
    \/ IsStr(a) /\ IsStr(b) /\ a.k = b.k /\ a.d = b.d /\ a.t = b.t
    \/ a.k = "date" /\ b.k = "date" /\ a.d = b.d
    \/ a.k = "none" /\ b.k = "none"

\* position of a string in lexicographic order: 'YYYY-MM-DD' sorts before
\* 'YYYY-MM-DD HH:MM:SS' of the same day, letters sort after digits
LexKey(v) ==
    CASE v.k = "dstr" -> v.d * (MaxTod + 2)
      [] v.k = "tstr" -> v.d * (MaxTod + 2) + v.t + 1
      [] v.k = "date" -> v.d * (MaxTod + 2)
      [] OTHER -> (MaxDay + 1) * (MaxTod + 2)

(* ------------------------ pandas conversions ---------------------------- *)
\* pd.to_datetime of one value raises on a string that is no date
Parseable(v) == v.k # "bad"

\* pd.to_datetime(v): a Timestamp (day, time of day); None stays None
ToDatetime(v) ==
    IF v.k = "none" THEN [nat |-> TRUE, d |-> 0, t |-> 0]
    ELSE [nat |-> FALSE, d |-> v.d, t |-> v.t]

\* .date() / .dt.date of a Timestamp: the time of day is dropped
ToDate(v) == DateObj(ToDatetime(v).d)

Range(s) == {s[i] : i \in 1..Len(s)}

\* string formats present among the strings of a column
Formats(rows) == {v.k : v \in {x \in Range(rows) : IsStr(x)}}

\* pd.to_datetime(column) raises when an element is no date, and, in a
\* build that infers one format for the whole column (strict), when the
\* strings of the column do not share one format
SeriesParseable(rows, strict) ==
    /\ \A v \in Range(rows) : Parseable(v)
    /\ strict => Cardinality(Formats(rows)) <= 1

\* pd.to_datetime(column).dt.date
SeriesToDate(rows) == [i \in 1..Len(rows) |-> ToDate(rows[i])]

\* column.max() raises TypeError when str and datetime.date are mixed
SeriesComparable(rows) ==
    \A a, b \in Range(rows) : IsStr(a) = IsStr(b)

SeriesMax(rows) ==
    CHOOSE m \in Range(rows) : \A v \in Range(rows) : LexKey(v) <= LexKey(m)

\* data[data['crawl_date'] == provided_date]
RECURSIVE FilterEq(_, _)
FilterEq(rows, v) ==
    IF rows = <<>> THEN <<>>
    ELSE IF PyEq(Head(rows), v) THEN <<Head(rows)>> \o FilterEq(Tail(rows), v)
    ELSE FilterEq(Tail(rows), v)

AllEq(rows, v) == \A i \in 1..Len(rows) : PyEq(rows[i], v)

(* ------------------------ outcomes of a call --------------------------- *)
\* a call either returns a table (its rows' crawl_date values, in order)
\* or raises; log is the set of (level, event) entries it wrote
Ret(rows, log) == [tag |-> "df", rows |-> rows, log |-> log, exc |-> "none"]
Raise(exc, log) == [tag |-> "raise", rows |-> <<>>, log |-> log, exc |-> exc]

\* what the database does with one query: raises at cursor(), execute()
\* or fetchall(), or hands back rows
RaiseAt == {"none", "cursor", "execute", "fetchall"}
QueryOutcome(at, rows) == [at |-> at, rows |-> rows]

\* the record kept of one issued query: which one, whether it succeeded,
\* and the rows it handed back
QRec(q, qo) ==
    [q |-> q, ok |-> qo.at = "none",
     res |-> IF qo.at = "none" THEN qo.rows ELSE <<>>]

(* ------------------------ FetchReportData ------------------------------ *)
\* a plausible slip: the except branch swallows the failure without logging
execute_query_silent(qo) ==
    IF qo.at = "none"
    THEN [isNone |-> FALSE, rows |-> qo.rows, log |-> {}]
    ELSE [isNone |-> TRUE, rows |-> <<>>, log |-> {}]

\* execute_query: the result list, or None and an error entry when
\* cursor creation, execute or fetchall raised
execute_query(qo) ==
    IF qo.at = "none"
    THEN [isNone |-> FALSE, rows |-> qo.rows, log |-> {}]
    ELSE [isNone |-> TRUE, rows |-> <<>>,
          log |-> {<<"error", "query_failed">>}]

\* get_newest_crawl_date: qo.rows is the one-row result of the MAX query,
\* whose value is None when the table is empty
get_newest_crawl_date(qo) ==
    LET r == execute_query(qo) IN
    IF ~r.isNone /\ r.rows # <<>> /\ r.rows[1].k # "none"
    THEN [val |-> r.rows[1], log |-> r.log]
    ELSE [val |-> None, log |-> r.log \cup {<<"info", "no_crawl_dates">>}]

\* a plausible slip: the zero-row branch reports through the error logger
fetch_rows_error(qo) ==
    LET r == execute_query(qo) IN
    IF ~r.isNone /\ r.rows # <<>>
    THEN Ret(r.rows, r.log \cup {<<"info", "converted">>})
    ELSE Ret(<<>>, r.log \cup {<<"error", "no_data_found">>})

\* the body shared by the eight table-returning fetch methods: run the
\* query, build the DataFrame when the result is a non-empty list,
\* otherwise log and return the empty DataFrame
fetch_rows(qo) ==
    LET r == execute_query(qo) IN
    IF ~r.isNone /\ r.rows # <<>>
    THEN Ret(r.rows, r.log \cup {<<"info", "converted">>})
    ELSE Ret(<<>>, r.log \cup {<<"info", "no_data_found">>})

\* company names: NULL, or a string as its list of characters
NullName == [null |-> TRUE, chars |-> <<>>]
Str(s) == [null |-> FALSE, chars |-> s]
Chars == {"a", "b", "_", "(", ")"}
Names ==
    {NullName} \cup
    {Str(s) : s \in UNION {[1..n -> Chars] : n \in 0..MaxNameLen}}

\* c in s
Contains(s, c) == \E i \in 1..Len(s) : s[i] = c
\* position of the first c at or after position from; 0 when there is none
Find(s, c, from) ==
    IF \E i \in from..Len(s) : s[i] = c
    THEN CHOOSE i \in from..Len(s) :
            s[i] = c /\ \A j \in from..(i - 1) : s[j] # c
    ELSE 0

\* re.search(r'\((.*?)\)', name): the first '(' and the first ')' after
\* it; None when no ')' follows the first '('
SearchParens(s) ==
    LET open == Find(s, "(", 1)
        close == IF open = 0 THEN 0 ELSE Find(s, ")", open + 1)
    IN [found |-> close # 0, open |-> open, close |-> close]

\* adjust_company_name, the function applied to each company_name: the
\* adjusted name, or the exception the call raises
adjust_company_name(name) ==
    IF name.null THEN [tag |-> "raise", exc |-> "TypeError", val |-> name]
    ELSE IF Contains(name.chars, "_")
    THEN [tag |-> "ok", exc |-> "none",
          val |-> Str(SubSeq(name.chars, 1, Find(name.chars, "_", 1) - 1))]
    ELSE IF Contains(name.chars, "(") /\ Contains(name.chars, ")")
    THEN LET m == SearchParens(name.chars) IN
         IF m.found
         THEN [tag |-> "ok", exc |-> "none",
               val |-> Str(SubSeq(name.chars, m.open + 1, m.close - 1))]
         ELSE [tag |-> "raise", exc |-> "AttributeError", val |-> name]
    ELSE [tag |-> "ok", exc |-> "none", val |-> name]

fetch_openings_statistics_metrics(qo) == fetch_rows(qo)
fetch_openings_history(qo) == fetch_rows(qo)
fetch_data_role(qo) == fetch_rows(qo)
fetch_data_tool(qo) == fetch_rows(qo)
\* a plausible slip: a row whose name does not adjust is dropped and the
\* other rows are returned
fetch_openings_company_dropping(qo) ==
    LET r == execute_query(qo)
        good == SelectSeq(r.rows,
                    LAMBDA row : adjust_company_name(row.company_name).tag
                                   = "ok")
    IN
    IF ~r.isNone /\ r.rows # <<>>
    THEN Ret([i \in 1..Len(good) |->
                 [good[i] EXCEPT
                    !.company_name = adjust_company_name(@).val]],
             r.log \cup {<<"info", "converted">>})
    ELSE Ret(<<>>, r.log \cup {<<"info", "no_data_found">>})

\* fetch_openings_company also adjusts the company_name of every row; an
\* exception of the adjustment is caught by the method's except branch.
\* A row given by its crawl_date alone stands for one whose name adjusts.
fetch_openings_company(qo) ==
    LET r == execute_query(qo)
        Named(row) == "company_name" \in DOMAIN row
        adjusted(row) ==
            IF Named(row)
            THEN [row EXCEPT
                    !.company_name = adjust_company_name(@).val]
            ELSE row
    IN
    IF ~r.isNone /\ r.rows # <<>>
    THEN IF \E i \in 1..Len(r.rows) :
               /\ Named(r.rows[i])
               /\ adjust_company_name(r.rows[i].company_name).tag = "raise"
         THEN Ret(<<>>, r.log \cup {<<"error", "fetch_failed">>})
         ELSE Ret([i \in 1..Len(r.rows) |-> adjusted(r.rows[i])],
                  r.log \cup {<<"info", "converted">>})
    ELSE Ret(<<>>, r.log \cup {<<"info", "no_data_found">>})
fetch_taiepi_area_openings(qo) == fetch_rows(qo)
fetch_tool_by_data_role(qo) == fetch_rows(qo)
fetch_tool_trends(qo) == fetch_rows(qo)

FetchMethods ==
    {"fetch_openings_statistics_metrics", "fetch_openings_history",
     "fetch_data_role", "fetch_data_tool", "fetch_openings_company",
     "fetch_taiepi_area_openings", "fetch_tool_by_data_role",
     "fetch_tool_trends"}

FetchMethod(fn, qo) ==
    CASE fn = "fetch_openings_statistics_metrics" ->
            fetch_openings_statistics_metrics(qo)
      [] fn = "fetch_openings_history" -> fetch_openings_history(qo)
      [] fn = "fetch_data_role" -> fetch_data_role(qo)
      [] fn = "fetch_data_tool" -> fetch_data_tool(qo)
      [] fn = "fetch_openings_company" -> fetch_openings_company(qo)
      [] fn = "fetch_taiepi_area_openings" -> fetch_taiepi_area_openings(qo)
      [] fn = "fetch_tool_by_data_role" -> fetch_tool_by_data_role(qo)
      [] OTHER -> fetch_tool_trends(qo)

(* ------------------------ dashboard wrappers --------------------------- *)
\* f is what the fetcher method returned; the wrapper's log continues it.

\* openings statistics: the column is compared to crawl_date as fetched
fetch_openings_statistics_for_dashboard(f, crawl_date) ==
    IF f.rows # <<>>
    THEN IF AllEq(f.rows, crawl_date)
         THEN Ret(f.rows, f.log)
         ELSE Ret(<<>>, f.log \cup {<<"error", "inconsistency">>})
    ELSE Ret(<<>>, f.log \cup {<<"info", "no_data_available">>})

\* historical series: n is what get_newest_crawl_date returns when the
\* wrapper asks again; only the newest row is compared, as Timestamps
fetch_historical_total_openings_for_dashboard(f, n) ==
    IF f.rows # <<>>
    THEN LET lg == f.log \cup n.log IN
         IF ~SeriesComparable(f.rows) THEN Raise("TypeError", lg)
         ELSE LET max_crawl_date == SeriesMax(f.rows) IN
              IF ~Parseable(max_crawl_date) \/ ~Parseable(n.val)
              THEN Raise("ValueError", lg)
              ELSE IF /\ ~ToDatetime(n.val).nat
                      /\ ToDatetime(max_crawl_date) = ToDatetime(n.val)
                   THEN Ret(f.rows, lg)
                   ELSE Ret(<<>>, lg \cup {<<"error", "inconsistency">>})
    ELSE Ret(<<>>, f.log \cup {<<"info", "no_data_available">>})

\* a plausible slip: the inconsistent table is handed on after logging
validate_unfiltered(f, crawl_date, strict) ==
    IF f.rows # <<>>
    THEN IF ~SeriesParseable(f.rows, strict) \/ ~Parseable(crawl_date)
         THEN Raise("ValueError", f.log)
         ELSE LET data == SeriesToDate(f.rows)
                  provided_date == ToDate(crawl_date)
              IN IF AllEq(data, provided_date)
                 THEN Ret(data, f.log \cup {<<"info", "validated">>})
                 ELSE Ret(data, f.log \cup {<<"error", "inconsistency">>})
    ELSE Ret(<<>>, f.log \cup {<<"info", "no_data_available">>})

\* role breakdown: both sides coerced to dates; any mismatch empties
fetch_data_role_for_dashboard(f, crawl_date, strict) ==
    IF f.rows # <<>>
    THEN IF ~SeriesParseable(f.rows, strict) \/ ~Parseable(crawl_date)
         THEN Raise("ValueError", f.log)
         ELSE LET data == SeriesToDate(f.rows)
                  provided_date == ToDate(crawl_date)
              IN IF AllEq(data, provided_date)
                 THEN Ret(data, f.log)
                 ELSE Ret(<<>>, f.log \cup {<<"error", "inconsistency">>})
    ELSE Ret(<<>>, f.log \cup {<<"info", "no_data_available">>})

\* the body shared by the tool, company and geographic wrappers: both
\* sides coerced to dates; on a mismatch the consistent rows are kept
validate_and_filter(f, crawl_date, strict) ==
    IF f.rows # <<>>
    THEN IF ~SeriesParseable(f.rows, strict) \/ ~Parseable(crawl_date)
         THEN Raise("ValueError", f.log)
         ELSE LET data == SeriesToDate(f.rows)
                  provided_date == ToDate(crawl_date)
              IN IF AllEq(data, provided_date)
                 THEN Ret(data, f.log \cup {<<"info", "validated">>})
                 ELSE Ret(FilterEq(data, provided_date),
                          f.log \cup {<<"error", "inconsistency">>})
    ELSE Ret(<<>>, f.log \cup {<<"info", "no_data_available">>})

fetch_data_tools_for_dashboard(f, crawl_date, strict) ==
    validate_and_filter(f, crawl_date, strict)
fetch_openings_company_for_dashboard(f, crawl_date, strict) ==
    validate_and_filter(f, crawl_date, strict)
fetch_taiepi_area_openings_for_dashboard(f, crawl_date, strict) ==
    validate_and_filter(f, crawl_date, strict)

(* ------------------------ state ---------------------------------------- *)
VARIABLES
    warehouse,          \* table -> set of crawl_date strings that have rows
    updates,            \* writes of the pipeline so far
    entry,              \* module whose load_home_page_data runs
    strictFormat,       \* the pandas build infers one format per column
    pc,                 \* position of the dashboard process
    connection,         \* fetcher.connection: "none", "open", "closed"
    opened,             \* connections acquired so far
    closeCalls,         \* calls of connection.close() so far
    newest_crawl_date,  \* local of load_home_page_data
    results,            \* the six result locals of load_home_page_data
    data,               \* local of the historical wrapper between its queries
    queries,            \* queries issued so far, in order
    log,                \* (level, event) entries written so far
    exc,                \* exception that ended the process, or "none"
    renders,            \* display_page calls served
    page,               \* layout the last display_page call returned
    renderConns,        \* connections acquired by the last display_page call
    wrap,               \* the last unit-level call and its outcome
    calc,               \* the last call of a query or chart computation
    cursors,            \* cursors of the connection that are open
    dag_runs            \* state of the tasks of the pipeline's DAG runs

vars == <<warehouse, updates, entry, strictFormat, pc, connection, opened,
          closeCalls, newest_crawl_date, results, data, queries, log, exc,
          renders, page, renderConns, wrap, calc, cursors, dag_runs>>

runVars == <<pc, connection, opened, closeCalls, newest_crawl_date, results,
             data, queries, log, exc>>

Tables == {"metrics", "role", "tools", "company", "geo"}

ResultNames ==
    {"openings_statistics", "historical_total_openings", "data_role",
     "data_tools", "openings_company", "taiepi_area_openings"}

Unbound == [bound |-> FALSE, rows |-> <<>>]
Bound(rows) == [bound |-> TRUE, rows |-> rows]

Idle == [fn |-> "none", rows |-> <<>>, crawl_date |-> None, at |-> "none",
         out |-> Ret(<<>>, {})]

\* no computation called yet
NoCalc == [fn |-> "none"]

(* ------------------------ the warehouse's answers ---------------------- *)
\* a set of strings as the ascending list ORDER BY ... ASC yields
RECURSIVE SortAsc(_)
SortAsc(S) ==
    IF S = {} THEN <<>>
    ELSE LET m == CHOOSE x \in S : \A y \in S : LexKey(x) <= LexKey(y)
         IN <<m>> \o SortAsc(S \ {m})

\* the last n elements of a list
LastN(s, n) ==
    IF Len(s) <= n THEN s ELSE SubSeq(s, Len(s) - n + 1, Len(s))

\* SELECT MAX(crawl_date) FROM rpt_job_openings_metrics: one row, NULL
\* when the table is empty
QMax(w) ==
    IF w["metrics"] = {} THEN <<None>>
    ELSE LET s == SortAsc(w["metrics"]) IN <<s[Len(s)]>>

\* a plausible slip: the inner query orders ascending, so that LIMIT 12
\* keeps the oldest rows
QHistory_oldest(w) ==
    LET s == SortAsc(w["metrics"]) IN
    IF Len(s) <= HistoryLimit THEN s ELSE SubSeq(s, 1, HistoryLimit)

\* ORDER BY crawl_date DESC LIMIT 12, then ORDER BY crawl_date ASC
QHistory(w) == LastN(SortAsc(w["metrics"]), HistoryLimit)

\* WHERE crawl_date = '{crawl_date}' on a text column: the rows whose
\* string is exactly the interpolated one
QByMarker(w, t, crawl_date) ==
    IF crawl_date \in w[t] THEN <<crawl_date>> ELSE <<>>

\* CAST('{crawl_date}' AS date) of the statistics query fails on a string
\* that is no date
CastFails(crawl_date) == crawl_date.k = "bad"

\* no run of the pipeline's DAG is followed
NoDagRuns == <<>>

(* ------------------------ Init ----------------------------------------- *)
RunInit ==
    /\ pc = "start"
    /\ connection = "none"
    /\ opened = 0
    /\ closeCalls = 0
    /\ newest_crawl_date = None
    /\ results = [r \in ResultNames |-> Unbound]
    /\ data = <<>>
    /\ queries = <<>>
    /\ log = {}
    /\ exc = "none"
    /\ renders = 0
    /\ page = "none"
    /\ renderConns = 0
    /\ cursors = 0
    /\ dag_runs = NoDagRuns

\* the warehouse starts with one set of snapshots present in every table
Init ==
    /\ \E S \in SUBSET WarehouseMarkers : warehouse = [t \in Tables |-> S]
    /\ updates = 0
    /\ entry \in {"home_pages", "dashboard_app"}
    /\ strictFormat \in BOOLEAN
    /\ RunInit
    /\ wrap = Idle
    /\ calc = NoCalc

(* ------------------------ the dashboard process ------------------------ *)
\* DatabaseConnector.connect_to_db: a live connection, or ConnectionError
\* when the warehouse is unreachable
connect_to_db == {"live", "ConnectionError"}

\* a plausible slip: the failure to connect is swallowed and the run goes
\* on without a connection
Construct_swallowed ==
    /\ pc = "start"
    /\ \E c \in connect_to_db :
          IF c = "live"
          THEN /\ connection' = "open"
               /\ opened' = opened + 1
               /\ log' = log \cup {<<"info", "connected">>}
          ELSE /\ log' = log \cup {<<"error", "connect_failed">>}
               /\ UNCHANGED <<connection, opened>>
    /\ pc' = "resolve"
    /\ UNCHANGED <<warehouse, updates, entry, strictFormat, closeCalls,
                   newest_crawl_date, results, data, queries, renders, page,
                   renderConns, wrap, calc, cursors, dag_runs, exc>>

\* FetchReportData(logger): load_home_page_data up to the constructed fetcher
Construct ==
    /\ pc = "start"
    /\ \E c \in connect_to_db :
          IF c = "live"
          THEN /\ connection' = "open"
               /\ opened' = opened + 1
               /\ log' = log \cup {<<"info", "connected">>}
               /\ pc' = "resolve"
               /\ exc' = exc
          ELSE /\ pc' = "raised"
               /\ exc' = "ConnectionError"
               /\ UNCHANGED <<connection, opened, log>>
    /\ UNCHANGED <<warehouse, updates, entry, strictFormat, closeCalls,
                   newest_crawl_date, results, data, queries, renders, page,
                   renderConns, wrap, calc, cursors, dag_runs>>

\* a plausible slip: the metric fetches run whatever the marker is
MarkerPresent_always(v) == TRUE

\* if newest_crawl_date:  None is falsy
MarkerPresent(v) == v.k # "none"

\* newest_crawl_date = fetcher.get_newest_crawl_date() and the branch on it
Resolve ==
    /\ pc = "resolve"
    /\ \E at \in RaiseAt :
          LET qo == QueryOutcome(at, QMax(warehouse))
              n == get_newest_crawl_date(qo)
          IN /\ newest_crawl_date' = n.val
             /\ queries' = Append(queries, QRec("max", qo))
             /\ IF MarkerPresent(n.val)
                THEN /\ log' = log \cup n.log \cup {<<"info", "fetching">>}
                     /\ pc' = "stats"
                ELSE /\ log' = log \cup n.log
                                \cup {<<"info", "no_newest_crawl_date">>}
                     /\ pc' = "close"
    /\ UNCHANGED <<warehouse, updates, entry, strictFormat, connection,
                   opened, closeCalls, results, data, exc, renders, page,
                   renderConns, wrap, calc, cursors, dag_runs>>

\* what a wrapper's outcome o does to the caller: the result local is
\* bound and control moves on, or the exception leaves load_home_page_data
Finish(name, o, next) ==
    /\ log' = log \cup o.log
    /\ IF o.tag = "raise"
       THEN /\ pc' = "raised"
            /\ exc' = o.exc
            /\ results' = results
       ELSE /\ pc' = next
            /\ exc' = exc
            /\ results' = [results EXCEPT ![name] = Bound(o.rows)]

\* openings_statistics = fetch_openings_statistics_for_dashboard(...)
FetchOpeningsStatistics ==
    /\ pc = "stats"
    /\ \E at0 \in RaiseAt :
          LET at == IF at0 = "none" /\ CastFails(newest_crawl_date)
                    THEN "execute" ELSE at0
              qo == QueryOutcome(at,
                       QByMarker(warehouse, "metrics", newest_crawl_date))
              o == fetch_openings_statistics_for_dashboard(
                       fetch_openings_statistics_metrics(qo),
                       newest_crawl_date)
          IN /\ queries' = Append(queries, QRec("statistics", qo))
             /\ Finish("openings_statistics", o, "history")
    /\ UNCHANGED <<warehouse, updates, entry, strictFormat, connection,
                   opened, closeCalls, newest_crawl_date, data, renders,
                   page, renderConns, wrap, calc, cursors, dag_runs>>

AfterHistory == IF entry = "home_pages" THEN "role" ELSE "close"

\* the historical wrapper up to its first query: data = fetch_openings_history()
FetchHistory ==
    /\ pc = "history"
    /\ \E at \in RaiseAt :
          LET qo == QueryOutcome(at, QHistory(warehouse))
              f == fetch_openings_history(qo)
          IN /\ queries' = Append(queries, QRec("history", qo))
             /\ IF f.rows # <<>>
                THEN /\ data' = f.rows
                     /\ log' = log \cup f.log
                     /\ pc' = "history_check"
                     /\ UNCHANGED <<results, exc>>
                ELSE /\ data' = data
                     /\ Finish("historical_total_openings",
                               fetch_historical_total_openings_for_dashboard(
                                   f, [val |-> None, log |-> {}]),
                               AfterHistory)
    /\ UNCHANGED <<warehouse, updates, entry, strictFormat, connection,
                   opened, closeCalls, newest_crawl_date, renders, page,
                   renderConns, wrap, calc, cursors, dag_runs>>

\* the rest of the historical wrapper: it asks for the newest crawl date
\* again and compares the newest row of the series with it
CheckHistory ==
    /\ pc = "history_check"
    /\ \E at \in RaiseAt :
          LET qo == QueryOutcome(at, QMax(warehouse))
              n == get_newest_crawl_date(qo)
              o == fetch_historical_total_openings_for_dashboard(
                       Ret(data, {}), n)
          IN /\ queries' = Append(queries, QRec("max", qo))
             /\ Finish("historical_total_openings", o, AfterHistory)
    /\ data' = <<>>
    /\ UNCHANGED <<warehouse, updates, entry, strictFormat, connection,
                   opened, closeCalls, newest_crawl_date, renders, page,
                   renderConns, wrap, calc, cursors, dag_runs>>

\* data_role = fetch_data_role_for_dashboard(fetcher, newest_crawl_date)
FetchDataRole ==
    /\ pc = "role"
    /\ \E at \in RaiseAt :
          LET qo == QueryOutcome(at,
                       QByMarker(warehouse, "role", newest_crawl_date))
              o == fetch_data_role_for_dashboard(
                       fetch_data_role(qo), newest_crawl_date, strictFormat)
          IN /\ queries' = Append(queries, QRec("role", qo))
             /\ Finish("data_role", o, "tools")
    /\ UNCHANGED <<warehouse, updates, entry, strictFormat, connection,
                   opened, closeCalls, newest_crawl_date, data, renders,
                   page, renderConns, wrap, calc, cursors, dag_runs>>

\* data_tools = fetch_data_tools_for_dashboard(fetcher, newest_crawl_date)
FetchDataTools ==
    /\ pc = "tools"
    /\ \E at \in RaiseAt :
          LET qo == QueryOutcome(at,
                       QByMarker(warehouse, "tools", newest_crawl_date))
              o == fetch_data_tools_for_dashboard(
                       fetch_data_tool(qo), newest_crawl_date, strictFormat)
          IN /\ queries' = Append(queries, QRec("tools", qo))
             /\ Finish("data_tools", o, "company")
    /\ UNCHANGED <<warehouse, updates, entry, strictFormat, connection,
                   opened, closeCalls, newest_crawl_date, data, renders,
                   page, renderConns, wrap, calc, cursors, dag_runs>>

\* openings_company = fetch_openings_company_for_dashboard(...)
FetchOpeningsCompany ==
    /\ pc = "company"
    /\ \E at \in RaiseAt :
          LET qo == QueryOutcome(at,
                       QByMarker(warehouse, "company", newest_crawl_date))
              o == fetch_openings_company_for_dashboard(
                       fetch_openings_company(qo), newest_crawl_date,
                       strictFormat)
          IN /\ queries' = Append(queries, QRec("company", qo))
             /\ Finish("openings_company", o, "geo")
    /\ UNCHANGED <<warehouse, updates, entry, strictFormat, connection,
                   opened, closeCalls, newest_crawl_date, data, renders,
                   page, renderConns, wrap, calc, cursors, dag_runs>>

\* taiepi_area_openings = fetch_taiepi_area_openings_for_dashboard(...)
FetchTaiepiAreaOpenings ==
    /\ pc = "geo"
    /\ \E at \in RaiseAt :
          LET qo == QueryOutcome(at,
                       QByMarker(warehouse, "geo", newest_crawl_date))
              o == fetch_taiepi_area_openings_for_dashboard(
                       fetch_taiepi_area_openings(qo), newest_crawl_date,
                       strictFormat)
          IN /\ queries' = Append(queries, QRec("geo", qo))
             /\ Finish("taiepi_area_openings", o, "close")
    /\ UNCHANGED <<warehouse, updates, entry, strictFormat, connection,
                   opened, closeCalls, newest_crawl_date, data, renders,
                   page, renderConns, wrap, calc, cursors, dag_runs>>

\* a plausible slip: the results are returned with the connection left open
CloseConnection_skipped ==
    /\ pc = "close"
    /\ pc' = "return"
    /\ UNCHANGED <<warehouse, updates, entry, strictFormat, opened,
                   newest_crawl_date, results, data, queries, exc, renders,
                   page, renderConns, wrap, calc, cursors, dag_runs,
                   connection,
                   closeCalls, log>>

\* if fetcher.connection: fetcher.connection.close()
CloseConnection ==
    /\ pc = "close"
    /\ IF connection # "none"
       THEN /\ connection' = "closed"
            /\ closeCalls' = closeCalls + 1
            /\ log' = log \cup {<<"info", "connection_closed">>}
       ELSE UNCHANGED <<connection, closeCalls, log>>
    /\ pc' = "return"
    /\ UNCHANGED <<warehouse, updates, entry, strictFormat, opened,
                   newest_crawl_date, results, data, queries, exc, renders,
                   page, renderConns, wrap, calc, cursors, dag_runs>>

\* the return statement: home_pages returns the six locals, which raises
\* UnboundLocalError when the branch that binds them did not run;
\* dashboard_app returns nothing
Return ==
    /\ pc = "return"
    /\ IF entry = "home_pages" /\ \E r \in ResultNames : ~results[r].bound
       THEN pc' = "raised" /\ exc' = "UnboundLocalError"
       ELSE pc' = "returned" /\ exc' = exc
    /\ UNCHANGED <<warehouse, updates, entry, strictFormat, connection,
                   opened, closeCalls, newest_crawl_date, results, data,
                   queries, log, renders, page, renderConns, wrap, calc, cursors, dag_runs>>

\* page_content after load_home_page_data returned: the statistics are
\* read from row 0, the pie and the line chart are built from their tables;
\* each of the three raises on the empty DataFrame
PageContent ==
    /\ pc = "returned"
    /\ entry = "home_pages"
    /\ IF results["openings_statistics"].rows = <<>>
       THEN pc' = "raised" /\ exc' = "KeyError"
       ELSE IF \/ results["data_role"].rows = <<>>
               \/ results["historical_total_openings"].rows = <<>>
            THEN pc' = "raised" /\ exc' = "ChartError"
            ELSE pc' = "rendered" /\ exc' = exc
    /\ UNCHANGED <<warehouse, updates, entry, strictFormat, connection,
                   opened, closeCalls, newest_crawl_date, results, data,
                   queries, log, renders, page, renderConns, wrap, calc, cursors, dag_runs>>

Pathnames == {"/", "/education", "/geography", "/stack"}

\* display_page(pathname): hands back the layout object its page module
\* built when it was imported
display_page(pathname) ==
    CASE pathname = "/education" -> "education_pages.layout"
      [] pathname = "/geography" -> "geography_pages.layout"
      [] pathname = "/stack" -> "stack_pages.layout"
      [] OTHER -> "home_pages.layout"

DisplayPage ==
    /\ pc = "rendered"
    /\ entry = "home_pages"
    /\ renders < MaxRenders
    /\ \E pathname \in Pathnames : page' = display_page(pathname)
    /\ renders' = renders + 1
    /\ UNCHANGED runVars
    /\ renderConns' = opened' - opened
    /\ UNCHANGED <<warehouse, updates, entry, strictFormat, wrap, calc, cursors, dag_runs>>

\* the pipeline (run_dbt) writes rows of a snapshot into one reporting table
PipelineWrite ==
    /\ updates < MaxUpdates
    /\ \E t \in Tables, m \in WarehouseMarkers :
          /\ m \notin warehouse[t]
          /\ warehouse' = [warehouse EXCEPT ![t] = @ \cup {m}]
    /\ updates' = updates + 1
    /\ UNCHANGED <<entry, strictFormat, renders, page, renderConns, wrap, calc, cursors, dag_runs>>
    /\ UNCHANGED runVars

Next ==
    \/ Construct
    \/ Resolve
    \/ FetchOpeningsStatistics
    \/ FetchHistory
    \/ CheckHistory
    \/ FetchDataRole
    \/ FetchDataTools
    \/ FetchOpeningsCompany
    \/ FetchTaiepiAreaOpenings
    \/ CloseConnection
    \/ Return
    \/ PageContent
    \/ DisplayPage
    \/ PipelineWrite

Spec == Init /\ [][Next]_vars

(* ------------------------ unit-level calls ----------------------------- *)
\* Each behaviour makes one call on a fresh input.
\* the tables a fetcher hands to a wrapper, and the result lists a query
\* hands to a fetcher method
RowSeqs == UNION {[1..n -> RowMarkers] : n \in 0..MaxRows}

CallRec(fn, rows, crawl_date, at, out) ==
    [fn |-> fn, rows |-> rows, crawl_date |-> crawl_date, at |-> at,
     out |-> out]

unitFrame == <<warehouse, updates, entry, strictFormat, renders, page,
               renderConns, pc, connection, opened, closeCalls,
               newest_crawl_date, results, data, queries, log, exc,
               calc, cursors, dag_runs>>

CallOpeningsStatistics ==
    /\ wrap = Idle
    /\ \E rows \in RowSeqs, cd \in RowMarkers :
          wrap' = CallRec("fetch_openings_statistics_for_dashboard", rows, cd, "none",
               fetch_openings_statistics_for_dashboard(Ret(rows, {}), cd))
    /\ UNCHANGED unitFrame

\* crawl_date is what the fetcher's get_newest_crawl_date hands back
CallHistorical ==
    /\ wrap = Idle
    /\ \E rows \in RowSeqs, cd \in RowMarkers \cup {None} :
          wrap' = CallRec("fetch_historical_total_openings_for_dashboard", rows, cd,
               "none",
               fetch_historical_total_openings_for_dashboard(
                   Ret(rows, {}), [val |-> cd, log |-> {}]))
    /\ UNCHANGED unitFrame

CallDataRole ==
    /\ wrap = Idle
    /\ \E rows \in RowSeqs, cd \in RowMarkers :
          wrap' = CallRec("fetch_data_role_for_dashboard", rows, cd, "none",
               fetch_data_role_for_dashboard(Ret(rows, {}), cd,
                                             strictFormat))
    /\ UNCHANGED unitFrame

CallDataTools ==
    /\ wrap = Idle
    /\ \E rows \in RowSeqs, cd \in RowMarkers :
          wrap' = CallRec("fetch_data_tools_for_dashboard", rows, cd, "none",
               fetch_data_tools_for_dashboard(Ret(rows, {}), cd,
                                              strictFormat))
    /\ UNCHANGED unitFrame

CallOpeningsCompany ==
    /\ wrap = Idle
    /\ \E rows \in RowSeqs, cd \in RowMarkers :
          wrap' = CallRec("fetch_openings_company_for_dashboard", rows, cd, "none",
               fetch_openings_company_for_dashboard(Ret(rows, {}), cd,
                                                    strictFormat))
    /\ UNCHANGED unitFrame

CallTaiepiAreaOpenings ==
    /\ wrap = Idle
    /\ \E rows \in RowSeqs, cd \in RowMarkers :
          wrap' = CallRec("fetch_taiepi_area_openings_for_dashboard", rows, cd, "none",
               fetch_taiepi_area_openings_for_dashboard(Ret(rows, {}), cd,
                                                        strictFormat))
    /\ UNCHANGED unitFrame

\* one of the eight table-returning methods of FetchReportData on a query
\* that raises somewhere or hands back rows
CallFetchMethod ==
    /\ wrap = Idle
    /\ \E fn \in FetchMethods, rows \in RowSeqs, at \in RaiseAt :
          wrap' = CallRec(fn, rows, None, at, FetchMethod(fn, QueryOutcome(at, rows)))
    /\ UNCHANGED unitFrame



UnitInit ==
    /\ warehouse = [t \in Tables |-> {}]
    /\ updates = 0
    /\ entry = "home_pages"
    /\ strictFormat \in BOOLEAN
    /\ RunInit
    /\ wrap = Idle
    /\ calc = NoCalc

UnitNext ==
    \/ CallOpeningsStatistics
    \/ CallHistorical
    \/ CallDataRole
    \/ CallDataTools
    \/ CallOpeningsCompany
    \/ CallTaiepiAreaOpenings
    \/ CallFetchMethod

SpecUnit == UnitInit /\ [][UnitNext]_vars

(* ------------------------ the queries' arithmetic ---------------------- *)
\* Days of well-formed date strings are numbered; on such strings the text
\* comparisons of the queries agree with the order of the numbers.
\* SQL values: NULL, or an exact fraction n/d; d = 0 stands for the
\* division-by-zero error that makes the whole statement fail
SqlNull == [null |-> TRUE, n |-> 0, d |-> 1]
Num(n) == [null |-> FALSE, n |-> n, d |-> 1]
DivisionByZero == [null |-> FALSE, n |-> 0, d |-> 0]
IsError(a) == ~a.null /\ a.d = 0

\* equality of two fractions that are no error
NumEq(a, b) == a.null = b.null /\ (~a.null => a.n * b.d = b.n * a.d)

SqlSub(a, b) ==
    IF IsError(a) \/ IsError(b) THEN DivisionByZero
    ELSE IF a.null \/ b.null THEN SqlNull
    ELSE [null |-> FALSE, n |-> a.n * b.d - b.n * a.d, d |-> a.d * b.d]

SqlMul(a, b) ==
    IF IsError(a) \/ IsError(b) THEN DivisionByZero
    ELSE IF a.null \/ b.null THEN SqlNull
    ELSE [null |-> FALSE, n |-> a.n * b.n, d |-> a.d * b.d]

\* a / b on floats: NULL when an operand is NULL, an error on b = 0
SqlDiv(a, b) ==
    IF IsError(a) \/ IsError(b) THEN DivisionByZero
    ELSE IF a.null \/ b.null THEN SqlNull
    ELSE IF b.n = 0 THEN DivisionByZero
    ELSE IF b.n > 0
         THEN [null |-> FALSE, n |-> a.n * b.d, d |-> a.d * b.n]
         ELSE [null |-> FALSE, n |-> -(a.n * b.d), d |-> -(a.d * b.n)]

NULLIF(a, b) == IF ~a.null /\ ~b.null /\ NumEq(a, b) THEN SqlNull ELSE a
COALESCE(a, b) == IF a.null THEN b ELSE a

\* a plausible slip: the divisor is not guarded by NULLIF
change_pct_unguarded(cur, prev) ==
    COALESCE(SqlMul(SqlDiv(SqlSub(cur, prev), prev), Num(100)), Num(0))

\* COALESCE(((x - prev_x) / NULLIF(CAST(prev_x AS FLOAT), 0)) * 100.0, 0)
change_pct(cur, prev) ==
    COALESCE(SqlMul(SqlDiv(SqlSub(cur, prev), NULLIF(prev, Num(0))),
                    Num(100)),
             Num(0))

\* the five metrics of the statistics query; the first four are columns
\* of rpt_job_openings_metrics, the last comes through the LEFT JOIN on
\* rpt_job_fill_time_statistics and is NULL where no row joins
StatColumns ==
    {"total_openings", "closed_openings_count", "new_openings_count",
     "fill_rate", "average_weeks_to_fill"}

StatDays == 1..MaxStatDay
StatValues(col) ==
    {Num(0), Num(50), Num(75)} \cup
    (IF col = "average_weeks_to_fill" THEN {SqlNull} ELSE {})

\* one column of the metrics table, one row per crawl date: a function
\* from the days present to the column's value
StatTables(col) ==
    UNION {[D -> StatValues(col)] :
             D \in {E \in SUBSET StatDays : Cardinality(E) <= MaxStatRows}}

\* the rows WHERE crawl_date BETWEEN crawl_date - 7 days AND crawl_date
StatWindow(tbl, crawl_date) ==
    {d \in DOMAIN tbl : crawl_date - WindowDays <= d /\ d <= crawl_date}

\* LEAD(x) OVER (ORDER BY crawl_date DESC) at the row of crawl_date: the
\* value of the next older row of the window, NULL when there is none
LeadValue(tbl, crawl_date) ==
    LET older == {d \in StatWindow(tbl, crawl_date) : d < crawl_date} IN
    IF older = {} THEN SqlNull
    ELSE tbl[CHOOSE d \in older : \A e \in older : e <= d]

\* the statistics query, for one of its metrics: the row of crawl_date
\* with the metric and its change percentage
QStatistics(tbl, crawl_date) ==
    IF crawl_date \notin DOMAIN tbl THEN QueryOutcome("none", <<>>)
    ELSE LET pct == change_pct(tbl[crawl_date], LeadValue(tbl, crawl_date))
         IN IF IsError(pct) THEN QueryOutcome("execute", <<>>)
            ELSE QueryOutcome("none",
                     <<[crawl_date |-> crawl_date, value |-> tbl[crawl_date],
                        change_pct |-> pct]>>)

(* ------------------------ calls of the queries ------------------------- *)
\* Each behaviour runs one fetch method on a warehouse drawn from the
\* bounded tables.
calcFrame == <<warehouse, updates, entry, strictFormat, renders, page,
               renderConns, pc, connection, opened, closeCalls,
               newest_crawl_date, results, data, queries, log, exc,
               wrap, cursors, dag_runs>>

CallStatisticsMetrics ==
    /\ calc = NoCalc
    /\ \E col \in StatColumns, crawl_date \in StatDays :
         \E tbl \in StatTables(col) :
            calc' = [fn |-> "fetch_openings_statistics_metrics",
                     col |-> col, tbl |-> tbl, crawl_date |-> crawl_date,
                     out |-> fetch_openings_statistics_metrics(
                                 QStatistics(tbl, crawl_date))]
    /\ UNCHANGED calcFrame

\* one column of a metrics table with a row at the requested date, a row
\* seven days before it and a row on a day between the two
StatTablesBetween(col, crawl_date) ==
    UNION {[{crawl_date - WindowDays, d, crawl_date} -> StatValues(col)] :
             d \in (crawl_date - WindowDays + 1)..(crawl_date - 1)}

CallStatisticsMetricsBetween ==
    /\ calc = NoCalc
    /\ \E col \in StatColumns :
         \E tbl \in StatTablesBetween(col, MaxStatDay) :
            calc' = [fn |-> "fetch_openings_statistics_metrics",
                     col |-> col, tbl |-> tbl, crawl_date |-> MaxStatDay,
                     out |-> fetch_openings_statistics_metrics(
                                 QStatistics(tbl, MaxStatDay))]
    /\ UNCHANGED calcFrame

\* the metrics tables of the historical series: one row per day of a set
\* of days, each marker a well-formed date string
HistoryTables == {{DStr(d) : d \in S} : S \in SUBSET (1..MaxHistoryDay)}

CallOpeningsHistory ==
    /\ calc = NoCalc
    /\ \E tbl \in HistoryTables :
          calc' = [fn |-> "fetch_openings_history", tbl |-> tbl,
                   out |-> fetch_openings_history(
                               QueryOutcome("none",
                                            QHistory([metrics |-> tbl])))]
    /\ UNCHANGED calcFrame

\* ORDER BY key LIMIT n over the rows ids of a table: every list the
\* database may hand back; rows with equal keys come in any order
RECURSIVE OrderLimit(_, _, _)
OrderLimit(ids, key, n) ==
    IF n = 0 \/ ids = {} THEN {<<>>}
    ELSE LET first == {i \in ids : \A j \in ids : key[i] <= key[j]} IN
         UNION {{<<i>> \o s : s \in OrderLimit(ids \ {i}, key, n - 1)} :
                  i \in first}

\* rpt_weekly_company_job_vacancies: a function from row numbers to rows.
\* The first k rows carry day 1, the others day 2; the first row's name
\* is one of three kinds, the other names adjust.
CompanyNames == {Str(<<"a", "_", "b">>), Str(<<")", "(">>), NullName}
CompanyTables ==
    {[i \in 1..NumCompanies |->
        [rank |-> i,
         company_name |-> IF i = 1 THEN nm ELSE Str(<<"a", "(", "b", ")">>),
         opening_count |-> cnt[i],
         crawl_date |-> IF i <= k THEN 1 ELSE 2]] :
       nm \in CompanyNames, cnt \in [1..NumCompanies -> 1..MaxOpenings],
       k \in 0..NumCompanies}

\* a plausible slip: the ranking is ordered ascending
QCompany_ascending(tbl, crawl_date) ==
    LET ids == {i \in DOMAIN tbl : tbl[i].crawl_date = crawl_date}
        key == [i \in ids |-> tbl[i].opening_count]
    IN {[j \in 1..Len(s) |-> tbl[s[j]]] :
          s \in OrderLimit(ids, key, CompanyLimit)}

\* WHERE crawl_date = '{crawl_date}' ORDER BY opening_count DESC LIMIT 5:
\* the result lists the query may hand back
QCompany(tbl, crawl_date) ==
    LET ids == {i \in DOMAIN tbl : tbl[i].crawl_date = crawl_date}
        key == [i \in ids |-> -tbl[i].opening_count]
    IN {[j \in 1..Len(s) |-> tbl[s[j]]] :
          s \in OrderLimit(ids, key, CompanyLimit)}

CallOpeningsCompanyQuery ==
    /\ calc = NoCalc
    /\ \E tbl \in CompanyTables :
         \E res \in QCompany(tbl, 1) :
            calc' = [fn |-> "fetch_openings_company", tbl |-> tbl,
                     crawl_date |-> 1, res |-> res,
                     out |-> fetch_openings_company(
                                 QueryOutcome("none", res))]
    /\ UNCHANGED calcFrame

\* rpt_data_tools_trends: a function from row numbers to rows.  The first
\* k rows carry day 1, the others day 2; ranks may repeat (one ranking
\* per category); row i counts b * i postings.
ToolTables ==
    {[i \in 1..NumRankedTools |->
        [rank |-> rk[i], tool_name |-> i, tool_count |-> Num(b * i),
         crawl_date |-> IF i <= k THEN 1 ELSE 2]] :
       rk \in [1..NumRankedTools -> 1..MaxRank], b \in 0..MaxToolCount,
       k \in 0..NumRankedTools}

\* total_openings of the metrics row of the requested date: NULL when the
\* LEFT JOIN finds no such row
MetricsTotals == {SqlNull} \cup {Num(4 * t) : t \in 0..MaxToolCount}

\* a plausible slip: the fraction is not scaled to a percentage
tool_pct_fraction(tool_count, total_openings) ==
    COALESCE(SqlDiv(tool_count, NULLIF(total_openings, Num(0))), Num(0))

\* COALESCE(tool_count::float / NULLIF(total_openings, 0) * 100, 0)
tool_pct(tool_count, total_openings) ==
    COALESCE(SqlMul(SqlDiv(tool_count, NULLIF(total_openings, Num(0))),
                    Num(100)),
             Num(0))

\* the query of fetch_data_tool: WHERE crawl_date = '{crawl_date}'
\* ORDER BY rank LIMIT 3, each row with its percentage; the outcomes the
\* database may give
QTool(tbl, total_openings, crawl_date) ==
    LET ids == {i \in DOMAIN tbl : tbl[i].crawl_date = crawl_date}
        key == [i \in ids |-> tbl[i].rank]
        row(i) == [rank |-> tbl[i].rank, tool_name |-> tbl[i].tool_name,
                   percentage_of_tool |->
                       tool_pct(tbl[i].tool_count, total_openings),
                   crawl_date |-> tbl[i].crawl_date]
    IN {IF \E j \in 1..Len(s) : IsError(row(s[j]).percentage_of_tool)
        THEN QueryOutcome("execute", <<>>)
        ELSE QueryOutcome("none", [j \in 1..Len(s) |-> row(s[j])]) :
          s \in OrderLimit(ids, key, ToolLimit)}

CallDataTool ==
    /\ calc = NoCalc
    /\ \E tbl \in ToolTables, total \in MetricsTotals :
         \E qo \in QTool(tbl, total, 1) :
            calc' = [fn |-> "fetch_data_tool", tbl |-> tbl, total |-> total,
                     crawl_date |-> 1, out |-> fetch_data_tool(qo)]
    /\ UNCHANGED calcFrame

\* rpt_data_role_vacancy_trends: a function from row numbers to rows, one
\* row per role and date.  The first k rows carry day 1, the others day 2.
RoleCounts == {0, 30, 70}
RoleTables ==
    {[i \in 1..NumRoles |->
        [data_role |-> i, count |-> Num(cnt[i]),
         crawl_date |-> IF i <= k THEN 1 ELSE 2]] :
       cnt \in [1..NumRoles -> RoleCounts], k \in 0..NumRoles}

SqlAdd(a, b) ==
    IF IsError(a) \/ IsError(b) THEN DivisionByZero
    ELSE IF a.null \/ b.null THEN SqlNull
    ELSE [null |-> FALSE, n |-> a.n * b.d + b.n * a.d, d |-> a.d * b.d]

\* SUM(x) over a set of rows: NULL over no rows
RECURSIVE SqlSum(_, _)
SqlSum(ids, x) ==
    IF ids = {} THEN SqlNull
    ELSE LET i == CHOOSE j \in ids : TRUE IN
         IF ids = {i} THEN x[i] ELSE SqlAdd(x[i], SqlSum(ids \ {i}, x))

\* (count::float / total_count) * 100
role_pct(count, total_count) ==
    SqlMul(SqlDiv(count, total_count), Num(100))

\* the query of fetch_data_role: every row of the date, each with its
\* share of SUM(count) over the rows of that date; there is no ORDER BY,
\* so the rows come in any order
QRole(tbl, crawl_date) ==
    LET ids == {i \in DOMAIN tbl : tbl[i].crawl_date = crawl_date}
        total_count == SqlSum(ids, [i \in ids |-> tbl[i].count])
        row(i) == [data_role |-> tbl[i].data_role, count |-> tbl[i].count,
                   percentage_of_total |-> role_pct(tbl[i].count, total_count),
                   crawl_date |-> tbl[i].crawl_date]
    IN {IF \E j \in 1..Len(s) : IsError(row(s[j]).percentage_of_total)
        THEN QueryOutcome("execute", <<>>)
        ELSE QueryOutcome("none", [j \in 1..Len(s) |-> row(s[j])]) :
          s \in OrderLimit(ids, [i \in ids |-> 0], Cardinality(ids))}

CallDataRoleQuery ==
    /\ calc = NoCalc
    /\ \E tbl \in RoleTables :
         \E qo \in QRole(tbl, 1) :
            calc' = [fn |-> "fetch_data_role", tbl |-> tbl, crawl_date |-> 1,
                     out |-> fetch_data_role(qo)]
    /\ UNCHANGED calcFrame

QueryNext ==
    \/ CallStatisticsMetrics
    \/ CallStatisticsMetricsBetween
    \/ CallOpeningsHistory
    \/ CallOpeningsCompanyQuery
    \/ CallDataTool
    \/ CallDataRoleQuery

\* no dashboard process runs; no computation has been called
CalcInit ==
    /\ warehouse = [t \in Tables |-> {}]
    /\ updates = 0
    /\ entry = "home_pages"
    /\ strictFormat = FALSE
    /\ RunInit
    /\ wrap = Idle
    /\ calc = NoCalc

SpecQuery == CalcInit /\ [][QueryNext]_vars

(* ------------------------ calls of the name adjustment ------------------ *)
CallAdjustCompanyName ==
    /\ calc = NoCalc
    /\ \E name \in Names :
          calc' = [fn |-> "adjust_company_name", name |-> name,
                   out |-> adjust_company_name(name)]
    /\ UNCHANGED calcFrame

NamesNext ==
    \/ CallAdjustCompanyName

SpecNames == CalcInit /\ [][NamesNext]_vars

(* ------------------------ tool-trend aggregation ----------------------- *)
\* A row of the tool-by-role series: data_role, category, tool_name,
\* count, crawl_date.  Tools are numbered in the order of their names,
\* days in the order of their dates.
WildCard == "All"
Roles == {"DA", "DE"}
Categories == {"lang", "db"}

\* sum of the count column
RECURSIVE SumCounts(_)
SumCounts(rows) ==
    IF rows = <<>> THEN 0 ELSE rows[1].count + SumCounts(Tail(rows))

\* a set of (tool_name, crawl_date) keys in ascending order, as groupby
\* sorts its group keys
RECURSIVE SortKeys(_)
SortKeys(K) ==
    IF K = {} THEN <<>>
    ELSE LET m == CHOOSE k \in K :
                    \A o \in K : k[1] < o[1] \/ (k[1] = o[1] /\ k[2] <= o[2])
         IN <<m>> \o SortKeys(K \ {m})

\* groupby(['tool_name', 'crawl_date'])['count'].sum().reset_index()
GroupByToolDate(rows) ==
    LET ks == SortKeys({<<r.tool_name, r.crawl_date>> : r \in Range(rows)})
    IN [i \in 1..Len(ks) |->
          [tool_name |-> ks[i][1], crawl_date |-> ks[i][2],
           count |-> SumCounts(SelectSeq(rows,
                        LAMBDA r : /\ r.tool_name = ks[i][1]
                                   /\ r.crawl_date = ks[i][2]))]]

\* a plausible slip: the groups keep the order in which the tools first
\* appear in the rows (groupby with sort=False)
GroupByTool_first_seen(rows) ==
    LET ks == SortKeys({<<i, 0>> : i \in
                 {i \in 1..Len(rows) :
                    \A j \in 1..(i - 1) :
                       rows[j].tool_name # rows[i].tool_name}})
    IN [i \in 1..Len(ks) |->
          [tool_name |-> rows[ks[i][1]].tool_name,
           count |-> SumCounts(SelectSeq(rows,
                        LAMBDA r : r.tool_name = rows[ks[i][1]].tool_name))]]

\* groupby('tool_name')['count'].sum(): one entry per tool, in ascending
\* order of tool_name
GroupByTool(rows) ==
    LET ks == SortKeys({<<r.tool_name, 0>> : r \in Range(rows)})
    IN [i \in 1..Len(ks) |->
          [tool_name |-> ks[i][1],
           count |-> SumCounts(SelectSeq(rows,
                        LAMBDA r : r.tool_name = ks[i][1]))]]

\* nlargest(n) with keep='first': the n entries of largest count in
\* descending order, entries of equal count in the order they have in s
RECURSIVE NLargest(_, _)
NLargest(s, n) ==
    IF n = 0 \/ s = <<>> THEN <<>>
    ELSE LET m == CHOOSE i \in 1..Len(s) :
                    /\ \A j \in 1..Len(s) : s[j].count <= s[i].count
                    /\ \A j \in 1..(i - 1) : s[j].count < s[i].count
         IN <<s[m]>> \o
            NLargest(SubSeq(s, 1, m - 1) \o SubSeq(s, m + 1, Len(s)), n - 1)

\* a plausible slip: the last branch joins its two conditions with | 
line_filtered_data_either(rows, selected_datarole, selected_category) ==
    IF selected_datarole = WildCard /\ selected_category = WildCard
    THEN rows
    ELSE IF selected_datarole = WildCard
    THEN SelectSeq(rows, LAMBDA r : r.category = selected_category)
    ELSE IF selected_category = WildCard
    THEN SelectSeq(rows, LAMBDA r : r.data_role = selected_datarole)
    ELSE SelectSeq(rows, LAMBDA r : \/ r.data_role = selected_datarole
                                    \/ r.category = selected_category)

\* the filtering of create_tool_trends_line_chart: its four branches
line_filtered_data(rows, selected_datarole, selected_category) ==
    IF selected_datarole = WildCard /\ selected_category = WildCard
    THEN rows
    ELSE IF selected_datarole = WildCard
    THEN SelectSeq(rows, LAMBDA r : r.category = selected_category)
    ELSE IF selected_category = WildCard
    THEN SelectSeq(rows, LAMBDA r : r.data_role = selected_datarole)
    ELSE SelectSeq(rows, LAMBDA r : /\ r.data_role = selected_datarole
                                    /\ r.category = selected_category)

\* the filtering of create_tool_popularity_bar_chart: its four branches
bar_filtered_data(rows, selected_datarole, selected_category) ==
    IF selected_datarole = WildCard /\ selected_category = WildCard
    THEN rows
    ELSE IF selected_datarole = WildCard
    THEN SelectSeq(rows, LAMBDA r : r.category = selected_category)
    ELSE IF selected_category = WildCard
    THEN SelectSeq(rows, LAMBDA r : r.data_role = selected_datarole)
    ELSE SelectSeq(rows, LAMBDA r : /\ r.data_role = selected_datarole
                                    /\ r.category = selected_category)

\* a plausible slip: the rows of the top tools are taken from the
\* filtered series, not from the grouped one
LineReduction_ungrouped(filtered_data) ==
    LET grouped_data == GroupByToolDate(filtered_data)
        top == NLargest(GroupByTool(grouped_data), LineTopTools)
        top_tools == {top[i].tool_name : i \in 1..Len(top)}
    IN SelectSeq([i \in 1..Len(filtered_data) |->
                    [tool_name |-> filtered_data[i].tool_name,
                     crawl_date |-> filtered_data[i].crawl_date,
                     count |-> filtered_data[i].count]],
                 LAMBDA r : r.tool_name \in top_tools)

\* the reduction of create_tool_trends_line_chart on the filtered series:
\* the data the chart is drawn from, before it is ordered for the legend
LineReduction(filtered_data) ==
    LET grouped_data == GroupByToolDate(filtered_data)
        top == NLargest(GroupByTool(grouped_data), LineTopTools)
        top_tools == {top[i].tool_name : i \in 1..Len(top)}
    IN SelectSeq(grouped_data, LAMBDA r : r.tool_name \in top_tools)

\* a plausible slip: the grouping of the line chart is copied, so the
\* bars are the largest (tool, date) sums
BarReduction_by_date(filtered_data) ==
    LET grouped_data == GroupByToolDate(filtered_data)
        top == NLargest(grouped_data, BarTopTools)
    IN [i \in 1..Len(top) |->
          [tool_name |-> top[i].tool_name, count |-> top[i].count]]

\* the reduction of create_tool_popularity_bar_chart on the filtered
\* series: the bars of the chart
BarReduction(filtered_data) ==
    NLargest(GroupByTool(filtered_data), BarTopTools)

\* create_tool_trends_line_chart: filter, then reduce
create_tool_trends_line_chart(tool_by_data_role, selected_datarole, selected_category) ==
    LineReduction(line_filtered_data(tool_by_data_role, selected_datarole,
                                     selected_category))

\* create_tool_popularity_bar_chart: filter, then reduce
create_tool_popularity_bar_chart(tool_by_data_role, selected_datarole, selected_category) ==
    BarReduction(bar_filtered_data(tool_by_data_role, selected_datarole,
                                   selected_category))

(* ------------------------ calls of the chart builders ------------------ *)
\* Each behaviour builds one chart from a series drawn from two bounded
\* families: short series of arbitrary rows, and series with one row per
\* tool for more tools than a chart keeps.
SeriesRows ==
    [data_role : Roles, category : Categories, tool_name : 1..2,
     count : {1}, crawl_date : 1..2]
ShortSeries == UNION {[1..n -> SeriesRows] : n \in 0..MaxSeriesLen}
Selections == ({WildCard} \cup Roles) \X ({WildCard} \cup Categories)

\* one row per tool, last tool first, then possibly one more row of the
\* first or the last tool from another role
ExtraRows ==
    {<<>>,
     <<[data_role |-> "DE", category |-> "lang", tool_name |-> 1,
        count |-> 1, crawl_date |-> 2]>>,
     <<[data_role |-> "DE",
        category |-> IF NumTools % 2 = 1 THEN "lang" ELSE "db",
        tool_name |-> NumTools, count |-> 1, crawl_date |-> 1]>>}
\* the tools of odd number are of category "lang" and their counts vary;
\* the others are of category "db" and carry the largest count
LangTools == {t \in 1..NumTools : t % 2 = 1}
ManyToolSeries ==
    {[j \in 1..NumTools |->
        LET t == NumTools + 1 - j IN
        [data_role |-> "DA",
         category |-> IF t \in LangTools THEN "lang" ELSE "db",
         tool_name |-> t,
         count |-> IF t \in LangTools THEN cnt[t] ELSE MaxSeriesCount,
         crawl_date |-> 1]] \o extra :
       cnt \in [LangTools -> 1..MaxSeriesCount], extra \in ExtraRows}
ManyToolSelections ==
    {<<WildCard, WildCard>>, <<"DA", WildCard>>, <<WildCard, "lang">>}

ChartCall(fn, rows, sel, filtered, out) ==
    [fn |-> fn, rows |-> rows, selected_datarole |-> sel[1],
     selected_category |-> sel[2], filtered |-> filtered, out |-> out]

CallLineChart ==
    /\ calc = NoCalc
    /\ \E rows \in ShortSeries, sel \in Selections :
          calc' = ChartCall("create_tool_trends_line_chart", rows, sel,
                            line_filtered_data(rows, sel[1], sel[2]),
                            create_tool_trends_line_chart(rows, sel[1], sel[2]))
    /\ UNCHANGED calcFrame

CallBarChart ==
    /\ calc = NoCalc
    /\ \E rows \in ShortSeries, sel \in Selections :
          calc' = ChartCall("create_tool_popularity_bar_chart", rows, sel,
                            bar_filtered_data(rows, sel[1], sel[2]),
                            create_tool_popularity_bar_chart(rows, sel[1],
                                                             sel[2]))
    /\ UNCHANGED calcFrame

CallLineChartManyTools ==
    /\ calc = NoCalc
    /\ \E rows \in ManyToolSeries, sel \in ManyToolSelections :
          calc' = ChartCall("create_tool_trends_line_chart", rows, sel,
                            line_filtered_data(rows, sel[1], sel[2]),
                            create_tool_trends_line_chart(rows, sel[1], sel[2]))
    /\ UNCHANGED calcFrame

CallBarChartManyTools ==
    /\ calc = NoCalc
    /\ \E rows \in ManyToolSeries, sel \in ManyToolSelections :
          calc' = ChartCall("create_tool_popularity_bar_chart", rows, sel,
                            bar_filtered_data(rows, sel[1], sel[2]),
                            create_tool_popularity_bar_chart(rows, sel[1],
                                                             sel[2]))
    /\ UNCHANGED calcFrame

ChartsNext ==
    \/ CallLineChart
    \/ CallBarChart
    \/ CallLineChartManyTools
    \/ CallBarChartManyTools

SpecCharts == CalcInit /\ [][ChartsNext]_vars

(* ------------------------ ranking extraction --------------------------- *)
\* A table handed to an extraction helper: its rows, and whether it has
\* its columns; the pd.DataFrame() that fetch methods and wrappers return
\* for an empty result has neither columns nor rows.
NoColumns == [columns |-> FALSE, rows |-> <<>>]
Table(rows) == [columns |-> TRUE, rows |-> rows]

ToolRankRows == [tool_name : 1..2, percentage_of_tool : {Num(0), Num(50)}]
CompanyRankRows == [company_name : 1..2, opening_count : 1..2]
RankerTables(rowset, n) ==
    {NoColumns} \cup
    {Table(rows) :
       rows \in UNION {[1..k -> rowset] : k \in 0..(n + MaxExtraRows)}}

\* a plausible slip: the positions are counted from 1, not from 0
extract_tools_ranker_from_one(data_tools) ==
    IF ~data_tools.columns
    THEN [tag |-> "raise", exc |-> "KeyError", val |-> <<>>]
    ELSE IF Len(data_tools.rows) < ToolsRanked + 1
    THEN [tag |-> "raise", exc |-> "IndexError", val |-> <<>>]
    ELSE [tag |-> "ok", exc |-> "none",
          val |-> [k \in 1..ToolsRanked |->
                     <<data_tools.rows[k + 1].tool_name,
                       data_tools.rows[k + 1].percentage_of_tool>>]]

\* extract_tools_ranker: data_tools['tool_name'] raises KeyError on a
\* table without columns, .values[k] raises IndexError past the last row
extract_tools_ranker(data_tools) ==
    IF ~data_tools.columns
    THEN [tag |-> "raise", exc |-> "KeyError", val |-> <<>>]
    ELSE IF Len(data_tools.rows) < ToolsRanked
    THEN [tag |-> "raise", exc |-> "IndexError", val |-> <<>>]
    ELSE [tag |-> "ok", exc |-> "none",
          val |-> [k \in 1..ToolsRanked |->
                     <<data_tools.rows[k].tool_name,
                       data_tools.rows[k].percentage_of_tool>>]]

\* extract_company_ranker: the same over five positions
extract_company_ranker(openings_company) ==
    IF ~openings_company.columns
    THEN [tag |-> "raise", exc |-> "KeyError", val |-> <<>>]
    ELSE IF Len(openings_company.rows) < CompaniesRanked
    THEN [tag |-> "raise", exc |-> "IndexError", val |-> <<>>]
    ELSE [tag |-> "ok", exc |-> "none",
          val |-> [k \in 1..CompaniesRanked |->
                     <<openings_company.rows[k].company_name,
                       openings_company.rows[k].opening_count>>]]

CallExtractToolsRanker ==
    /\ calc = NoCalc
    /\ \E df \in RankerTables(ToolRankRows, ToolsRanked) :
          calc' = [fn |-> "extract_tools_ranker", n |-> ToolsRanked,
                   df |-> df, out |-> extract_tools_ranker(df)]
    /\ UNCHANGED calcFrame

CallExtractCompanyRanker ==
    /\ calc = NoCalc
    /\ \E df \in RankerTables(CompanyRankRows, CompaniesRanked) :
          calc' = [fn |-> "extract_company_ranker", n |-> CompaniesRanked,
                   df |-> df, out |-> extract_company_ranker(df)]
    /\ UNCHANGED calcFrame

ExtractNext ==
    \/ CallExtractToolsRanker
    \/ CallExtractCompanyRanker

SpecExtract == CalcInit /\ [][ExtractNext]_vars

(* ------------------------ a fetcher's session -------------------------- *)
\* A fetcher with a live connection serves a bounded sequence of calls of
\* its methods and of the dashboard wrappers.
SessionMethods ==
    FetchMethods \cup {"get_newest_crawl_date", "fetch_all_tables"}

\* a plausible slip: one of the methods sends a statement that writes
StatementKind_delete(fn) ==
    IF fn = "fetch_tool_trends" THEN "DELETE" ELSE "SELECT"

\* the kind of the statement a method hands to execute_query: the query
\* text of every method starts with SELECT
StatementKind(fn) == "SELECT"

\* what executing a statement of a kind does to the tables: a SELECT
\* leaves them as they are, a DELETE without WHERE empties them
Execute(w, kind) ==
    IF kind = "SELECT" THEN w ELSE [t \in Tables |-> {}]

\* the tables after execute_query ran a method's statement: execute() was
\* reached unless cursor() raised, and took effect unless it raised
\* itself
TablesAfter(w, fn, at) ==
    IF at \in {"none", "fetchall"} THEN Execute(w, StatementKind(fn)) ELSE w

\* cursors execute_query leaves open: cursor.close() follows fetchall()
\* inside the try and is skipped when execute() or fetchall() raises;
\* when cursor() raises there is no cursor
execute_query_cursors(at) ==
    IF at \in {"execute", "fetchall"} THEN 1 ELSE 0

\* the fetch method a wrapper calls
WrapperMethod(w) ==
    CASE w = "fetch_openings_statistics_for_dashboard" ->
             "fetch_openings_statistics_metrics"
      [] w = "fetch_historical_total_openings_for_dashboard" ->
             "fetch_openings_history"
      [] w = "fetch_data_role_for_dashboard" -> "fetch_data_role"
      [] w = "fetch_data_tools_for_dashboard" -> "fetch_data_tool"
      [] w = "fetch_openings_company_for_dashboard" ->
             "fetch_openings_company"
      [] w = "fetch_taiepi_area_openings_for_dashboard" ->
             "fetch_taiepi_area_openings"

DashboardWrappers ==
    {"fetch_openings_statistics_for_dashboard",
     "fetch_historical_total_openings_for_dashboard",
     "fetch_data_role_for_dashboard",
     "fetch_data_tools_for_dashboard",
     "fetch_openings_company_for_dashboard",
     "fetch_taiepi_area_openings_for_dashboard"}

SessionCalls == IF calc = NoCalc THEN 0 ELSE calc.calls

\* one call of a method of FetchReportData
SessionCall ==
    /\ SessionCalls < MaxSessionCalls
    /\ \E fn \in SessionMethods, at \in RaiseAt :
          /\ warehouse' = TablesAfter(warehouse, fn, at)
          /\ cursors' = cursors + execute_query_cursors(at)
          /\ calc' = [fn |-> fn, at |-> at, calls |-> SessionCalls + 1]
    /\ UNCHANGED <<updates, entry, strictFormat, renders, page, renderConns,
                   pc, connection, opened, closeCalls, newest_crawl_date,
                   results, data, queries, log, exc, wrap, dag_runs>>

\* one call of a dashboard wrapper: its fetch method, and for the
\* historical series get_newest_crawl_date again when rows came back
SessionWrapperCall ==
    /\ SessionCalls < MaxSessionCalls
    /\ \E w \in DashboardWrappers, at \in RaiseAt, at2 \in RaiseAt :
          LET fn == WrapperMethod(w)
              again == /\ w = "fetch_historical_total_openings_for_dashboard"
                       /\ at = "none"
                       /\ warehouse["metrics"] # {}
              w1 == TablesAfter(warehouse, fn, at)
          IN /\ ~again => at2 = "none"
             /\ warehouse' =
                  IF again THEN TablesAfter(w1, "get_newest_crawl_date", at2)
                  ELSE w1
             /\ cursors' = cursors + execute_query_cursors(at)
                             + (IF again THEN execute_query_cursors(at2) ELSE 0)
             /\ calc' = [fn |-> w, at |-> at, calls |-> SessionCalls + 1]
    /\ UNCHANGED <<updates, entry, strictFormat, renders, page, renderConns,
                   pc, connection, opened, closeCalls, newest_crawl_date,
                   results, data, queries, log, exc, wrap, dag_runs>>

SessionInit ==
    /\ \E S \in SUBSET WarehouseMarkers : warehouse = [t \in Tables |-> S]
    /\ updates = 0
    /\ entry = "home_pages"
    /\ strictFormat = FALSE
    /\ RunInit
    /\ wrap = Idle
    /\ calc = NoCalc

SessionNext ==
    \/ SessionCall
    \/ SessionWrapperCall

SpecSession == SessionInit /\ [][SessionNext]_vars

(* ------------------------ repeated invocations ------------------------- *)
\* What a fetcher may return when it is invoked on given warehouse contents
\* and a given marker: one return for every result list its query may
\* hand back.
fetch_openings_company_returns(tbl, crawl_date) ==
    {fetch_openings_company(QueryOutcome("none", res)) :
       res \in QCompany(tbl, crawl_date)}

fetch_data_tool_returns(tbl, total_openings, crawl_date) ==
    {fetch_data_tool(qo) : qo \in QTool(tbl, total_openings, crawl_date)}

RepeatOpeningsCompany ==
    /\ calc = NoCalc
    /\ \E tbl \in CompanyTables :
          calc' = [fn |-> "fetch_openings_company", repeated |-> TRUE,
                   tbl |-> tbl, crawl_date |-> 1,
                   outs |-> fetch_openings_company_returns(tbl, 1)]
    /\ UNCHANGED calcFrame

RepeatDataTool ==
    /\ calc = NoCalc
    /\ \E tbl \in ToolTables, total \in MetricsTotals :
          calc' = [fn |-> "fetch_data_tool", repeated |-> TRUE,
                   tbl |-> tbl, total |-> total, crawl_date |-> 1,
                   outs |-> fetch_data_tool_returns(tbl, total, 1)]
    /\ UNCHANGED calcFrame

RepeatNext ==
    \/ RepeatOpeningsCompany
    \/ RepeatDataTool

SpecRepeat == CalcInit /\ [][RepeatNext]_vars

(* ------------------------ the pipeline's DAG --------------------------- *)
\* job_vacancy_data_pipeline: four DockerOperator tasks chained by >>.
\* The scheduler creates runs and moves each task of a run through the
\* states of an Airflow task instance; no task sets a trigger rule, so
\* each waits for all its upstream tasks to succeed.
DagTasks == {"crawl_data", "load_raw_data", "transform_raw_data", "run_dbt"}

\* a plausible slip: the two middle tasks are both hung under crawl_data,
\* crawl_data >> [load_raw_data, transform_raw_data] >> run_dbt
Upstream_fan_out(t) ==
    CASE t = "crawl_data" -> {}
      [] t = "load_raw_data" -> {"crawl_data"}
      [] t = "transform_raw_data" -> {"crawl_data"}
      [] t = "run_dbt" -> {"load_raw_data", "transform_raw_data"}

\* crawl_data >> load_raw_data >> transform_raw_data >> run_dbt
Upstream(t) ==
    CASE t = "crawl_data" -> {}
      [] t = "load_raw_data" -> {"crawl_data"}
      [] t = "transform_raw_data" -> {"load_raw_data"}
      [] t = "run_dbt" -> {"transform_raw_data"}

\* a run as the scheduler creates it: no task has a state, none was tried
NewDagRun == [state |-> [t \in DagTasks |-> "none"],
              tries |-> [t \in DagTasks |-> 0]]

dagFrame == <<warehouse, updates, entry, strictFormat, renders, page,
              renderConns, pc, connection, opened, closeCalls,
              newest_crawl_date, results, data, queries, log, exc,
              wrap, calc, cursors>>

\* the schedule (every Monday at midnight) is due and a run is created
TriggerDagRun ==
    /\ Len(dag_runs) < MaxDagRuns
    /\ dag_runs' = Append(dag_runs, NewDagRun)
    /\ UNCHANGED dagFrame

\* a task instance is started: it was not tried yet or waits for its
\* retry, and its upstream tasks have all succeeded
StartTask ==
    /\ \E r \in DOMAIN dag_runs, t \in DagTasks :
          /\ dag_runs[r].state[t] \in {"none", "up_for_retry"}
          /\ \A u \in Upstream(t) : dag_runs[r].state[u] = "success"
          /\ dag_runs' = [dag_runs EXCEPT ![r].state[t] = "running",
                                          ![r].tries[t] = @ + 1]
    /\ UNCHANGED dagFrame

\* the container of a running task exits with status 0
TaskSucceeds ==
    /\ \E r \in DOMAIN dag_runs, t \in DagTasks :
          /\ dag_runs[r].state[t] = "running"
          /\ dag_runs' = [dag_runs EXCEPT ![r].state[t] = "success"]
    /\ UNCHANGED dagFrame

\* the container of a running task fails: the task is retried while it
\* has retries left ('retries': 1) and has failed otherwise
TaskFails ==
    /\ \E r \in DOMAIN dag_runs, t \in DagTasks :
          /\ dag_runs[r].state[t] = "running"
          /\ dag_runs' = [dag_runs EXCEPT ![r].state[t] =
                             IF dag_runs[r].tries[t] <= Retries
                             THEN "up_for_retry" ELSE "failed"]
    /\ UNCHANGED dagFrame

\* a task one of whose upstream tasks failed is never started
MarkUpstreamFailed ==
    /\ \E r \in DOMAIN dag_runs, t \in DagTasks :
          /\ dag_runs[r].state[t] = "none"
          /\ \E u \in Upstream(t) :
                dag_runs[r].state[u] \in {"failed", "upstream_failed"}
          /\ dag_runs' = [dag_runs EXCEPT ![r].state[t] = "upstream_failed"]
    /\ UNCHANGED dagFrame

DagNext ==
    \/ TriggerDagRun
    \/ StartTask
    \/ TaskSucceeds
    \/ TaskFails
    \/ MarkUpstreamFailed

SpecDag == CalcInit /\ [][DagNext]_vars

(* ------------------------ properties ----------------------------------- *)
\* two marker values denote the same calendar day
SameDay(a, b) ==
    /\ a.k \notin {"bad", "none"}
    /\ b.k \notin {"bad", "none"}
    /\ a.d = b.d

\* a row carries marker m: equal as fetched, or the same calendar day
Carries(row, m) == PyEq(row, m) \/ SameDay(row, m)

\* control has left load_home_page_data of a process that had a connection
LeftLoad == opened = 1 /\ pc \in {"raised", "returned", "rendered"}

MaxQueries == {i \in DOMAIN queries : queries[i].q = "max"}

ParamWrappers ==
    {"fetch_openings_statistics_for_dashboard",
     "fetch_data_role_for_dashboard", "fetch_data_tools_for_dashboard",
     "fetch_openings_company_for_dashboard",
     "fetch_taiepi_area_openings_for_dashboard"}

EmptyingWrappers ==
    {"fetch_openings_statistics_for_dashboard",
     "fetch_historical_total_openings_for_dashboard",
     "fetch_data_role_for_dashboard"}

FilteringWrappers == ParamWrappers \ EmptyingWrappers

Wrappers == ParamWrappers \cup EmptyingWrappers

\* C1: whenever control has left load_home_page_data of a run whose
\* fetcher holds a live connection, by return or by an exception,
\* connection.close() has been called exactly once.
C1_ClosedExactlyOnce == LeftLoad => closeCalls = 1

\* C2: every non-empty result bound by a run carries the marker resolved
\* at the start of the run (for the historical series: its newest row),
\* whatever the pipeline wrote in between.
C2_ResultsCarryResolvedMarker ==
    \A r \in ResultNames :
        (results[r].bound /\ results[r].rows # <<>>) =>
            IF r = "historical_total_openings"
            THEN Carries(results[r].rows[Len(results[r].rows)],
                         newest_crawl_date)
            ELSE \A i \in 1..Len(results[r].rows) :
                     Carries(results[r].rows[i], newest_crawl_date)

\* C3: a table returned by a marker-parameterized wrapper is empty, or
\* every one of its rows carries the requested crawl date.
C3_NoMixedTable ==
    (wrap.fn \in ParamWrappers /\ wrap.out.tag = "df") =>
        \A i \in 1..Len(wrap.out.rows) :
            Carries(wrap.out.rows[i], wrap.crawl_date)

\* a filtering wrapper was handed a matching and a mismatching row and
\* returned a non-empty table
C3_Witness ==
    /\ wrap.fn = "fetch_data_tools_for_dashboard"
    /\ wrap.out.tag = "df"
    /\ wrap.out.rows # <<>>
    /\ \E i \in 1..Len(wrap.rows) : ~Carries(wrap.rows[i], wrap.crawl_date)

\* C4: when cursor creation, execute or fetchall raises, a table-returning
\* fetch method returns the empty DataFrame and has logged an error; it
\* does not raise.
C4_QueryFailureGivesEmpty ==
    (wrap.fn \in FetchMethods /\ wrap.at # "none") =>
        /\ wrap.out.tag = "df"
        /\ wrap.out.rows = <<>>
        /\ \E e \in wrap.out.log : e[1] = "error"

\* fetchall raised inside fetch_tool_trends
C4_Witness ==
    /\ wrap.fn = "fetch_tool_trends"
    /\ wrap.at = "fetchall"
    /\ wrap.out.tag = "df"

\* C5: whatever mix of empty and non-empty results the fetch steps give,
\* and also without a marker, load_home_page_data returns and page_content
\* completes: neither ends in an exception.
C5_RenderNeverFails ==
    ~(pc = "raised" /\ exc \in {"UnboundLocalError", "KeyError", "ChartError"})

\* C6: when the MAX query of a run fails or yields NULL, the marker is
\* None, no exception left get_newest_crawl_date, the run issues no other
\* query, and the absence is logged at info level.
C6_NoMarkerSkipsFetches ==
    (Len(queries) >= 1 /\ (~queries[1].ok \/ queries[1].res = <<None>>)) =>
        /\ newest_crawl_date = None
        /\ Len(queries) = 1
        /\ <<"info", "no_newest_crawl_date">> \in log
        /\ pc \in {"close", "return", "returned", "raised"}
        /\ pc = "raised" => exc = "UnboundLocalError"

\* the metrics table was empty and the run went on to close the connection
C6_Witness ==
    /\ Len(queries) = 1
    /\ queries[1].ok
    /\ queries[1].res = <<None>>
    /\ pc = "return"
    /\ closeCalls = 1

\* C7: a run that resolved its marker has executed the MAX query exactly
\* once.
C7_MaxQueryOnce ==
    (opened = 1 /\ pc \notin {"start", "resolve"}) =>
        Cardinality(MaxQueries) = 1

\* C8: a display_page call that resolves to the home layout acquires
\* exactly one database connection.
C8_OneConnectionPerRender ==
    (renders > 0 /\ page = "home_pages.layout") => renderConns = 1

\* C9: a wrapper accepts a table all of whose rows denote the calendar day
\* of the requested marker, whether they arrive as dates, date strings or
\* timestamp strings.
C9_SameDayAccepted ==
    (/\ wrap.fn \in Wrappers
     /\ wrap.rows # <<>>
     /\ \A i \in 1..Len(wrap.rows) : SameDay(wrap.rows[i], wrap.crawl_date))
    => /\ wrap.out.tag = "df"
       /\ Len(wrap.out.rows) = Len(wrap.rows)

\* the rows of the input table that carry marker m
RECURSIVE CarryingRows(_, _)
CarryingRows(rows, m) ==
    IF rows = <<>> THEN <<>>
    ELSE IF Carries(Head(rows), m)
         THEN <<Head(rows)>> \o CarryingRows(Tail(rows), m)
         ELSE CarryingRows(Tail(rows), m)

\* the input of a wrapper call has a row of another marker (for the
\* historical series: its newest row is of another marker)
Mismatch ==
    /\ wrap.rows # <<>>
    /\ IF wrap.fn = "fetch_historical_total_openings_for_dashboard"
       THEN ~Carries(SeriesMax(wrap.rows), wrap.crawl_date)
       ELSE \E i \in 1..Len(wrap.rows) :
                ~Carries(wrap.rows[i], wrap.crawl_date)

\* what the mismatch policy yields when the wrapper returns
MismatchPolicy ==
    /\ <<"error", "inconsistency">> \in wrap.out.log
    /\ wrap.fn \in EmptyingWrappers => wrap.out.rows = <<>>
    /\ wrap.fn \in FilteringWrappers =>
          wrap.out.rows =
              SeriesToDate(CarryingRows(wrap.rows, wrap.crawl_date))

\* C10: on a mismatch every wrapper returns and has logged an error-level
\* inconsistency; the statistics, historical and role wrappers return the
\* empty table, the tool, company and geographic wrappers exactly the rows
\* of the requested marker.
C10_MismatchPolicy ==
    (wrap.fn \in Wrappers /\ Mismatch) =>
        (wrap.out.tag = "df" /\ MismatchPolicy)

\* C11: a fetch method whose query succeeds with zero rows, and a wrapper
\* whose fetcher hands it zero rows, return the empty DataFrame (not None,
\* no exception) with an info entry in the log and no error entry.
C11_ZeroRowsGiveEmptyWithInfo ==
    (/\ wrap.fn \in FetchMethods \cup Wrappers
     /\ wrap.at = "none"
     /\ wrap.rows = <<>>) =>
        /\ wrap.out.tag = "df"
        /\ wrap.out.rows = <<>>
        /\ \E e \in wrap.out.log : e[1] = "info"
        /\ ~\E e \in wrap.out.log : e[1] = "error"

\* fetch_openings_history on a query that succeeds with no rows
C11_Witness ==
    /\ wrap.fn = "fetch_openings_history"
    /\ wrap.at = "none"
    /\ wrap.rows = <<>>
    /\ wrap.out = Ret(<<>>, {<<"info", "no_data_found">>})

\* the value the statistics query takes as previous: that of the nearest
\* older row within the seven days before the requested date
Previous == LeadValue(calc.tbl, calc.crawl_date)

\* C12: for each of the five metrics, whenever the metrics table holds the
\* requested row the fetch returns it, and its change percentage is
\* (current - previous) / previous * 100 when previous is present and
\* non-zero, and 0 when previous is zero or there is no previous row; the
\* query never fails on the division.
C12_ChangePct ==
    (/\ calc.fn = "fetch_openings_statistics_metrics"
     /\ calc.crawl_date \in DOMAIN calc.tbl) =>
        /\ Len(calc.out.rows) = 1
        /\ ~\E e \in calc.out.log : e[1] = "error"
        /\ LET pct == calc.out.rows[1].change_pct
               cur == calc.tbl[calc.crawl_date]
           IN /\ ~pct.null /\ pct.d > 0
              /\ (~cur.null /\ ~Previous.null /\ Previous.n # 0) =>
                    pct.n * Previous.n * cur.d
                      = (cur.n * Previous.d - Previous.n * cur.d) * 100 * pct.d
              /\ (Previous.null \/ Previous.n = 0) => pct.n = 0

\* previous 50 and current 75 give 50
C12_Witness ==
    /\ calc.fn = "fetch_openings_statistics_metrics"
    /\ calc.crawl_date \in DOMAIN calc.tbl
    /\ calc.tbl[calc.crawl_date] = Num(75)
    /\ Previous = Num(50)
    /\ Len(calc.out.rows) = 1
    /\ NumEq(calc.out.rows[1].change_pct, Num(50))

Min(a, b) == IF a <= b THEN a ELSE b

\* C13: on a metrics table of n rows with distinct markers,
\* fetch_openings_history returns min(n, 12) rows, each a row of the
\* table, in strictly ascending marker order, and every row left out is
\* older than every row returned.
C13_HistoryMostRecent ==
    calc.fn = "fetch_openings_history" =>
        LET rows == calc.out.rows IN
        /\ Len(rows) = Min(Cardinality(calc.tbl), HistoryLimit)
        /\ \A i \in 1..Len(rows) : rows[i] \in calc.tbl
        /\ \A i, j \in 1..Len(rows) : i < j => rows[i].d < rows[j].d
        /\ \A m \in calc.tbl \ Range(rows) :
              \A i \in 1..Len(rows) : m.d < rows[i].d

\* two rows more than the limit: the two oldest are left out
C13_Witness ==
    /\ calc.fn = "fetch_openings_history"
    /\ Cardinality(calc.tbl) = HistoryLimit + 2
    /\ Len(calc.out.rows) = HistoryLimit
    /\ calc.out.rows[1] = DStr(3)

\* v is a substring of s enclosed by a '(' and a later ')'
Parenthesized(s, v) ==
    \E i, j \in 1..Len(s) :
        i < j /\ s[i] = "(" /\ s[j] = ")" /\ v = SubSeq(s, i + 1, j - 1)

\* the three rules of the name adjustment, on a name that is a string
AdjustRules(name, out) ==
    /\ out.tag = "ok"
    /\ ~out.val.null
    /\ IF Contains(name.chars, "_")
       THEN \E i \in 1..Len(name.chars) :
               /\ name.chars[i] = "_"
               /\ ~Contains(SubSeq(name.chars, 1, i - 1), "_")
               /\ out.val.chars = SubSeq(name.chars, 1, i - 1)
       ELSE IF Contains(name.chars, "(") /\ Contains(name.chars, ")")
       THEN Parenthesized(name.chars, out.val.chars)
       ELSE out.val = name

\* C14: a company name with an underscore becomes the substring before
\* its first underscore, whatever parentheses it has; otherwise a name
\* with parentheses becomes the parenthesized substring; otherwise the
\* name is unchanged.
C14_CompanyNameRules ==
    (calc.fn = "adjust_company_name" /\ ~calc.name.null) =>
        AdjustRules(calc.name, calc.out)

\* the rows of the company table that carry the requested date
OfMarker == {i \in DOMAIN calc.tbl :
               calc.tbl[i].crawl_date = calc.crawl_date}

\* C15: fetch_openings_company returns at most 5 rows, each a distinct
\* row of the requested marker, ordered by opening_count descending, and
\* no row of that marker left out has a larger opening_count than a row
\* returned.
C15_CompanyTopFive ==
    calc.fn = "fetch_openings_company" =>
        LET rows == calc.out.rows IN
        /\ Len(rows) <= CompanyLimit
        /\ \A i \in 1..Len(rows) :
              /\ rows[i].rank \in OfMarker
              /\ rows[i].crawl_date = calc.crawl_date
              /\ rows[i].opening_count = calc.tbl[rows[i].rank].opening_count
        /\ \A i, j \in 1..Len(rows) :
              i < j => /\ rows[i].rank # rows[j].rank
                       /\ rows[i].opening_count >= rows[j].opening_count
        /\ \A o \in OfMarker \ {rows[i].rank : i \in 1..Len(rows)} :
              \A i \in 1..Len(rows) :
                 calc.tbl[o].opening_count <= rows[i].opening_count

\* six companies of the marker, five returned, the one left out smaller
\* than the first returned
C15_Witness ==
    /\ calc.fn = "fetch_openings_company"
    /\ Cardinality(OfMarker) = CompanyLimit + 1
    /\ Len(calc.out.rows) = CompanyLimit
    /\ \E o \in OfMarker \ {calc.out.rows[i].rank : i \in 1..CompanyLimit} :
          calc.tbl[o].opening_count < calc.out.rows[1].opening_count

\* C16: fetch_data_tool returns the rows of the requested marker, at most
\* 3 of them, ordered by rank ascending; each row's percentage is
\* tool_count / total_openings * 100 of the marker's metrics row, and 0
\* when that total is zero or the metrics table has no row of the marker.
C16_ToolTopThree ==
    calc.fn = "fetch_data_tool" =>
        LET rows == calc.out.rows IN
        /\ Len(rows) = Min(ToolLimit, Cardinality(OfMarker))
        /\ \A i \in 1..Len(rows) :
              /\ rows[i].tool_name \in OfMarker
              /\ rows[i].crawl_date = calc.crawl_date
              /\ rows[i].rank = calc.tbl[rows[i].tool_name].rank
              /\ LET pct == rows[i].percentage_of_tool
                     cnt == calc.tbl[rows[i].tool_name].tool_count
                 IN /\ ~pct.null /\ pct.d > 0
                    /\ IF calc.total.null \/ calc.total.n = 0
                       THEN pct.n = 0
                       ELSE pct.n * calc.total.n * cnt.d
                              = cnt.n * 100 * pct.d * calc.total.d
        /\ \A i, j \in 1..Len(rows) :
              i < j => /\ rows[i].tool_name # rows[j].tool_name
                       /\ rows[i].rank <= rows[j].rank

\* four tools of the marker, three returned; 2 postings of 4 make 50
C16_Witness ==
    /\ calc.fn = "fetch_data_tool"
    /\ Cardinality(OfMarker) = ToolLimit + 1
    /\ Len(calc.out.rows) = ToolLimit
    /\ calc.total = Num(4)
    /\ \E i \in 1..ToolLimit :
          /\ calc.tbl[calc.out.rows[i].tool_name].tool_count = Num(2)
          /\ NumEq(calc.out.rows[i].percentage_of_tool, Num(50))

\* the sum of the percentages of a result
RECURSIVE SumPct(_)
SumPct(rows) ==
    IF rows = <<>> THEN Num(0)
    ELSE SqlAdd(rows[1].percentage_of_total, SumPct(Tail(rows)))

\* the sum of the counts of the requested marker
TotalCount ==
    SqlSum(OfMarker, [i \in OfMarker |-> calc.tbl[i].count])

\* for a table with a role row of the marker: one row per role of the
\* marker, each with count / sum * 100, the percentages summing to 100
RoleShares ==
    LET rows == calc.out.rows IN
    /\ Len(rows) = Cardinality(OfMarker)
    /\ {rows[i].data_role : i \in 1..Len(rows)} = OfMarker
    /\ \A i \in 1..Len(rows) :
          LET pct == rows[i].percentage_of_total
              cnt == calc.tbl[rows[i].data_role].count
          IN /\ ~pct.null /\ pct.d > 0
             /\ pct.n * TotalCount.n * cnt.d
                  = cnt.n * 100 * pct.d * TotalCount.d
    /\ NumEq(SumPct(rows), Num(100))

\* C17: for every requested marker with at least one role row,
\* fetch_data_role returns one row per role of the marker, whose
\* percentage is its count divided by the sum of the marker's counts
\* times 100, and the percentages of the result sum to 100.
C17_RoleShares ==
    (calc.fn = "fetch_data_role" /\ OfMarker # {}) => RoleShares

\* the filter as the claim states it
Kept(r) ==
    /\ calc.selected_datarole = WildCard
         \/ r.data_role = calc.selected_datarole
    /\ calc.selected_category = WildCard
         \/ r.category = calc.selected_category

ChartBuilders ==
    {"create_tool_trends_line_chart", "create_tool_popularity_bar_chart"}

\* C18: in both chart builders the filtered series consists of exactly
\* the rows of the input, in their order, for which (selected_datarole is
\* 'All' or equals the row's data_role) and (selected_category is 'All'
\* or equals the row's category).
C18_FilterIff ==
    calc.fn \in ChartBuilders =>
        calc.filtered = SelectSeq(calc.rows, Kept)

\* both selections set: a row of the role but of another category goes,
\* a row matching both stays
C18_Witness ==
    /\ calc.fn = "create_tool_popularity_bar_chart"
    /\ calc.selected_datarole = "DA"
    /\ calc.selected_category = "db"
    /\ Len(calc.rows) = 2
    /\ calc.rows[1].data_role = "DA" /\ calc.rows[1].category = "lang"
    /\ calc.rows[2].data_role = "DA" /\ calc.rows[2].category = "db"
    /\ calc.filtered = <<calc.rows[2]>>

\* the tools and the markers of the filtered series, and the sum of the
\* counts of tool t over the markers M
FilteredTools == {r.tool_name : r \in Range(calc.filtered)}
FilteredMarkers == {r.crawl_date : r \in Range(calc.filtered)}
CountOf(t, M) ==
    SumCounts(SelectSeq(calc.filtered,
                        LAMBDA r : r.tool_name = t /\ r.crawl_date \in M))
KeptTools == {r.tool_name : r \in Range(calc.out)}

\* the tools kept are k of the tools of the filtered series, or all of
\* them when there are fewer, and no tool left out has a larger total
\* than a tool kept
KeepsTop(k) ==
    /\ KeptTools \subseteq FilteredTools
    /\ Cardinality(KeptTools) = Min(k, Cardinality(FilteredTools))
    /\ \A t \in KeptTools, u \in FilteredTools \ KeptTools :
          CountOf(u, FilteredMarkers) <= CountOf(t, FilteredMarkers)

\* C19: the line-chart reduction keeps min(10, number of tools) tools,
\* those of highest count summed over all markers of the filtered series;
\* its output has exactly one row for each (kept tool, marker) pair of
\* the filtered series, holding the sum of the pair's counts, and no
\* other row.
C19_LineReduction ==
    calc.fn = "create_tool_trends_line_chart" =>
        /\ KeepsTop(LineTopTools)
        /\ \A i \in 1..Len(calc.out) :
              /\ \E r \in Range(calc.filtered) :
                    /\ r.tool_name = calc.out[i].tool_name
                    /\ r.crawl_date = calc.out[i].crawl_date
              /\ calc.out[i].count
                   = CountOf(calc.out[i].tool_name, {calc.out[i].crawl_date})
              /\ \A j \in 1..Len(calc.out) :
                    (/\ calc.out[j].tool_name = calc.out[i].tool_name
                     /\ calc.out[j].crawl_date = calc.out[i].crawl_date)
                       => j = i
        /\ \A r \in Range(calc.filtered) :
              r.tool_name \in KeptTools =>
                 \E i \in 1..Len(calc.out) :
                    /\ calc.out[i].tool_name = r.tool_name
                    /\ calc.out[i].crawl_date = r.crawl_date

\* eleven tools, the one of smallest total left out; a kept tool has two
\* rows on one marker, summed into one
C19_Witness ==
    /\ calc.fn = "create_tool_trends_line_chart"
    /\ Cardinality(FilteredTools) = LineTopTools + 1
    /\ Cardinality(KeptTools) = LineTopTools
    /\ \E u \in FilteredTools \ KeptTools : \A t \in KeptTools :
          CountOf(u, FilteredMarkers) < CountOf(t, FilteredMarkers)
    /\ \E i \in 1..Len(calc.out) :
          /\ calc.out[i].count = 3
          /\ Cardinality({j \in 1..Len(calc.filtered) :
                /\ calc.filtered[j].tool_name = calc.out[i].tool_name
                /\ calc.filtered[j].crawl_date = calc.out[i].crawl_date}) = 2

\* C20: the bar-chart reduction keeps min(5, number of tools) tools,
\* those of highest count summed over all markers and roles of the
\* filtered series, and its output has one row per kept tool, holding
\* that sum.
C20_BarReduction ==
    calc.fn = "create_tool_popularity_bar_chart" =>
        /\ KeepsTop(BarTopTools)
        /\ Len(calc.out) = Cardinality(KeptTools)
        /\ \A i \in 1..Len(calc.out) :
              calc.out[i].count
                = CountOf(calc.out[i].tool_name, FilteredMarkers)

\* six tools pass the category filter, five are kept; a kept tool's bar
\* sums its rows of two markers and two roles
C20_Witness ==
    /\ calc.fn = "create_tool_popularity_bar_chart"
    /\ calc.selected_category = "lang"
    /\ Cardinality(FilteredTools) = BarTopTools + 1
    /\ Len(calc.out) = BarTopTools
    /\ \E i \in 1..Len(calc.out) :
          /\ calc.out[i].tool_name = 1
          /\ calc.out[i].count = 3
          /\ CountOf(1, {1}) = 2
          /\ CountOf(1, {2}) = 1

Rankers == {"extract_tools_ranker", "extract_company_ranker"}

\* the key fields of a row, in the order the helpers read them
KeyFields(row) ==
    IF calc.fn = "extract_tools_ranker"
    THEN <<row.tool_name, row.percentage_of_tool>>
    ELSE <<row.company_name, row.opening_count>>

\* on at least N rows: the key fields of rows 1 to N, in the given order
ExtractsFirstN ==
    Len(calc.df.rows) >= calc.n =>
        /\ calc.out.tag = "ok"
        /\ Len(calc.out.val) = calc.n
        /\ \A k \in 1..calc.n : calc.out.val[k] = KeyFields(calc.df.rows[k])

\* C21 as stated: the helpers return the key fields of the first N rows;
\* on fewer than N rows, the empty result included, the call fails with
\* an out-of-bounds index error.
C21_IndexErrorOnFewer ==
    calc.fn \in Rankers =>
        /\ ExtractsFirstN
        /\ Len(calc.df.rows) < calc.n =>
              calc.out.tag = "raise" /\ calc.out.exc = "IndexError"

\* C21 amended: the helpers return the key fields of the first N rows; on
\* fewer than N rows the call fails, with IndexError when the table has
\* its columns and with KeyError on the empty DataFrame without columns.
C21_FailsOnFewer ==
    calc.fn \in Rankers =>
        /\ ExtractsFirstN
        /\ Len(calc.df.rows) < calc.n =>
              /\ calc.out.tag = "raise"
              /\ calc.out.exc =
                   IF calc.df.columns THEN "IndexError" ELSE "KeyError"

\* two tool rows: position 3 is out of bounds
C21_Witness ==
    /\ calc.fn = "extract_tools_ranker"
    /\ calc.df.columns
    /\ Len(calc.df.rows) = 2
    /\ calc.out.tag = "raise"
    /\ calc.out.exc = "IndexError"

C29_NoCursorLeftOpen == cursors = 0

\* C23: when the warehouse is unreachable the error of connect_to_db
\* leaves FetchReportData(logger) and load_home_page_data: the run has
\* ended with ConnectionError, no query was issued, no result is bound
\* and no page is rendered.
C23_UnreachableIsFatal ==
    (opened = 0 /\ pc # "start") =>
        /\ pc = "raised"
        /\ exc = "ConnectionError"
        /\ connection = "none"
        /\ queries = <<>>
        /\ \A r \in ResultNames : ~results[r].bound
        /\ page = "none"

\* a run that failed to connect to a warehouse that holds snapshots
C23_Witness ==
    /\ pc = "raised"
    /\ exc = "ConnectionError"
    /\ opened = 0
    /\ warehouse["metrics"] # {}

\* C24: each metric fetcher is deterministic: any two invocations on the
\* same warehouse contents and the same marker return the same rows in
\* the same order, also when companies tie on opening_count or tools tie
\* on rank.
C24_Deterministic ==
    calc # NoCalc => \A a, b \in calc.outs : a = b

\* C25: whenever the metrics table holds the requested row and a row
\* seven days before it, the change percentage of the statistics fetch is
\* computed against the value of that row, whatever other rows the table
\* holds, also one on a day between the two.
C25_PreviousIsSevenDaysBefore ==
    (/\ calc.fn = "fetch_openings_statistics_metrics"
     /\ calc.crawl_date \in DOMAIN calc.tbl
     /\ calc.crawl_date - WindowDays \in DOMAIN calc.tbl) =>
        /\ Len(calc.out.rows) = 1
        /\ NumEq(calc.out.rows[1].change_pct,
                 change_pct(calc.tbl[calc.crawl_date],
                            calc.tbl[calc.crawl_date - WindowDays]))

\* a name the adjustment cannot handle: NULL, or a string without an
\* underscore that holds both parentheses but no '(' before a ')'
Unnormalizable(name) ==
    \/ name.null
    \/ /\ ~Contains(name.chars, "_")
       /\ Contains(name.chars, "(")
       /\ Contains(name.chars, ")")
       /\ ~\E i, j \in 1..Len(name.chars) :
             i < j /\ name.chars[i] = "(" /\ name.chars[j] = ")"

\* C30: fetch_openings_company never raises; when a name among the rows
\* the query returned cannot be normalized, the failure is logged and the
\* whole ranking comes back as the empty DataFrame; otherwise every row of
\* the query's result is returned.
C30_NameFailureEmptiesRanking ==
    calc.fn = "fetch_openings_company" =>
        /\ calc.out.tag = "df"
        /\ calc.out.exc = "none"
        /\ IF \E i \in 1..Len(calc.res) :
                 Unnormalizable(calc.res[i].company_name)
           THEN /\ calc.out.rows = <<>>
                /\ <<"error", "fetch_failed">> \in calc.out.log
           ELSE Len(calc.out.rows) = Len(calc.res)

\* a result of five rows, one of them named ')(', comes back empty
C30_Witness ==
    /\ calc.fn = "fetch_openings_company"
    /\ Len(calc.res) = CompanyLimit
    /\ \E i \in 1..Len(calc.res) :
          calc.res[i].company_name = Str(<<")", "(">>)
    /\ calc.out.rows = <<>>

\* the steps of load_home_page_data, in the order of the claim
Stage(p) ==
    CASE p = "start" -> 0
      [] p = "resolve" -> 1
      [] p = "stats" -> 2
      [] p = "history" -> 3
      [] p = "history_check" -> 4
      [] p = "role" -> 5
      [] p = "tools" -> 6
      [] p = "company" -> 7
      [] p = "geo" -> 8
      [] p = "close" -> 9
      [] p = "return" -> 10
      [] p = "returned" -> 11
      [] p = "rendered" -> 12
      [] OTHER -> 13

\* the step that issues a query of a kind
QueryStage(q) ==
    CASE q = "max" -> {1, 4}
      [] q = "statistics" -> {2}
      [] q = "history" -> {3}
      [] q = "role" -> {5}
      [] q = "tools" -> {6}
      [] q = "company" -> {7}
      [] q = "geo" -> {8}

\* C26: in a run of load_home_page_data the connection is opened first,
\* then the marker is resolved, then the fetches run in their order, each
\* step issuing one query on the open connection, then the connection is
\* closed, and only then the results reach the presentation layer; no
\* query is issued before the connection is opened or after it is closed.
C26_StepOrder ==
    /\ [](pc \in {"returned", "rendered"} =>
             connection = "closed" /\ closeCalls = 1)
    /\ [](Stage(pc) \in 1..9 => connection = "open")
    /\ [][/\ pc' # pc => Stage(pc') > Stage(pc)
          /\ queries' # queries =>
                /\ connection = "open" /\ connection' = "open"
                /\ Len(queries') = Len(queries) + 1
                /\ SubSeq(queries', 1, Len(queries)) = queries
                /\ Stage(pc) \in QueryStage(queries'[Len(queries')].q)
          /\ connection' # connection =>
                \/ connection = "none" /\ connection' = "open" /\ pc = "start"
                \/ connection = "open" /\ connection' = "closed"
                     /\ pc = "close"]_vars

\* a run that issued all its queries, closed and returned its results
C26_Witness ==
    /\ pc = "returned"
    /\ entry = "home_pages"
    /\ Len(queries) = 8
    /\ connection = "closed"
    /\ \A r \in ResultNames : results[r].bound

\* the position at which tool t first appears in the input series
FirstSeen(t) ==
    CHOOSE i \in 1..Len(calc.rows) :
        /\ calc.rows[i].tool_name = t
        /\ \A j \in 1..(i - 1) : calc.rows[j].tool_name # t

\* a tool kept and a tool left out that have the same total
TiedAtBoundary(t, u) ==
    /\ t \in KeptTools
    /\ u \in FilteredTools \ KeptTools
    /\ CountOf(t, FilteredMarkers) = CountOf(u, FilteredMarkers)

\* C27 as claimed: of tools with equal totals at the top-K boundary of a
\* chart's reduction, those kept appear in the input series before those
\* left out.
C27_TiesKeepFirstSeen ==
    calc.fn \in ChartBuilders =>
        \A t, u \in FilteredTools :
            TiedAtBoundary(t, u) => FirstSeen(t) < FirstSeen(u)

\* C27: of tools with equal totals at the top-K boundary of a chart's
\* reduction, those kept come before those left out in ascending order of
\* tool_name, the order of the grouped totals.
C27_TiesKeepLowestNames ==
    calc.fn \in ChartBuilders =>
        \A t, u \in FilteredTools : TiedAtBoundary(t, u) => t < u

\* a bar chart that kept a tool and left out one of the same total that
\* appears earlier in the input series
C27_Witness ==
    /\ calc.fn = "create_tool_popularity_bar_chart"
    /\ \E t, u \in FilteredTools :
          /\ TiedAtBoundary(t, u)
          /\ FirstSeen(u) < FirstSeen(t)

\* the order of the tasks the claim names
TaskOrder == <<"crawl_data", "load_raw_data", "transform_raw_data", "run_dbt">>

\* task t of run r was started
Started(r, t) == dag_runs[r].tries[t] > 0

\* C28: in every run of job_vacancy_data_pipeline a task is started only
\* when the task before it in the order crawl_data, load_raw_data,
\* transform_raw_data, run_dbt has succeeded (crawl_data has none before
\* it), and no two tasks of the run are running at the same time.
C28_FixedOrderOneAtATime ==
    \A r \in DOMAIN dag_runs :
        /\ \A i \in 2..Len(TaskOrder) :
              Started(r, TaskOrder[i]) =>
                  dag_runs[r].state[TaskOrder[i - 1]] = "success"
        /\ \A i, j \in 1..Len(TaskOrder) :
              (i < j /\ Started(r, TaskOrder[j])) =>
                  dag_runs[r].state[TaskOrder[i]] = "success"
        /\ Cardinality({t \in DagTasks :
                          dag_runs[r].state[t] = "running"}) <= 1

\* a run whose last task runs after an earlier task was retried, while a
\* task of another run is running as well
C28_Witness ==
    \E r, q \in DOMAIN dag_runs :
        /\ r # q
        /\ dag_runs[r].state["run_dbt"] = "running"
        /\ dag_runs[r].tries["load_raw_data"] = 2
        /\ \E t \in DagTasks : dag_runs[q].state[t] = "running"

====
